---- MODULE Spec2Model ----
(***************************************************************************)
(* A state-machine model of the video platform's request handlers.         *)
(*                                                                         *)
(* Every handler is an async function: each `await` on the store or the    *)
(* media host is a suspend point, so a handler is a sequence of atomic     *)
(* steps and the steps of concurrent requests interleave.  A request in    *)
(* flight is a record held by one of the slots in Procs; its `pc` names    *)
(* the await it is suspended at.                                           *)
(*                                                                         *)
(* The handlers are grouped in families with a next-state relation each:   *)
(* sessions (SpecAuth, SpecLogin for every login input and SpecSession    *)
(* for one user's sessions), like toggles (SpecLike), the owner-guarded    *)
(* mutations of tweets, comments and playlists (SpecOwner), videos         *)
(* (SpecVideo, SpecDelete, SpecThumbnail, SpecToggle), the videos of       *)
(* playlists (SpecPlaylist), the references to videos (SpecIntegrity),     *)
(* the validation of ids (SpecValidate), accounts (SpecRegister,           *)
(* SpecAccount, SpecPassword, SpecEnvelope) and the list, detail and       *)
(* profile views (SpecPage, SpecList, SpecFeed, SpecProfile,               *)
(* SpecLikedVideos, SpecComments, SpecTweets, SpecPlaylistDetail).  A view *)
(* whose pipeline is a function of the collections it reads starts from,   *)
(* or is asked with, every such collection within the bounds.  Spec is     *)
(* all of them together.                                                   *)
(***************************************************************************)
EXTENDS Integers, Sequences, FiniteSets, Bags, TLC

\* ------------------------------------------------------------------ bounds

\* Refresh tokens issued in one run where both users have sessions.
MaxTokens == 2

\* Refresh tokens issued in one run at all.
MaxRotations == 3

\* Like documents created in one run.
MaxLikes == 2

\* Documents created per content collection (tweets, comments, playlists, videos).
MaxDocs == 1

\* Collections among tweets, comments and playlists that hold documents in one run
\* (their handlers share no state).
MaxCollections == 1

\* Assets uploaded to the media host.
MaxUploads == 3

\* User documents created by registerUser.
MaxRegistrations == 2

\* Records in a result set that is paginated, and the page and limit asked for.
MaxRecords == 4
MaxPage == 3
MaxLimit == 3

\* ----------------------------------------------------------------- domains

Procs == {"p1", "p2"}

\* A field, cookie or variable that is undefined in JavaScript.
Absent == "absent"

\* The accounts: u1 and u2 are registered when the model starts.
UserIds == {"u1", "u2"}

Usernames == {"n1", "nX"}
Emails == {"e1", "e2"}
Passwords == {"pwA", "pwB"}

\* A refresh token is a JWT: payload {_id: uid}, plus what makes two tokens of one
\* user differ (modelled by the serial n).  NoToken is the undefined/null value.
NoToken == [uid |-> "none", n |-> 0]
\* A string that is no JWT signed with REFRESH_TOKEN_SECRET.
GarbageToken == [uid |-> "garbage", n |-> 0]
\* A well-signed token whose _id names no User document.
OrphanToken == [uid |-> "gone", n |-> 0]

VARIABLES
    users,        \* User collection: id -> [username, email, password, refreshToken,
                  \*                         fullName, avtar, coverImage]; an image is
                  \*                         an asset of the media host, or 0 for none
    issued,       \* refresh tokens generated so far
    expiredUpTo,  \* tokens with serial <= expiredUpTo are past their expiry
    authed,       \* users holding a valid access token (issued by login or refresh)
    areq,         \* session requests in flight / their last response, per slot
    consumed,     \* history: tokens a successful refreshAccessToken was answered for
    lastWriter,   \* history: the slot that last wrote users[u].refreshToken
    sinceLogout,  \* history: logoutUser updated u and no token was stored for u since
    lastDone      \* history: the slot whose login or refresh of u was last answered 200

authVars ==
    <<users, issued, expiredUpTo, authed, areq, consumed, lastWriter, sinceLogout, lastDone>>

VARIABLES
    likes,        \* Like collection: documents [id, kind, target, likedBy]
    likeIds,      \* _id values handed out to Like documents so far
    lreq,         \* like-toggle requests in flight / their last response, per slot
    pairRun       \* history: two toggles of one (user, target) pair run back to back

likeVars == <<likes, likeIds, lreq, pairRun>>

VARIABLES
    tweets,       \* Tweet collection: id -> [owner, content]
    comments,     \* Comment collection: id -> [owner, video, content]
    playlists,    \* Playlist collection: id -> [owner, name, description, videos]
    videos,       \* Video collection: id -> [owner, title, description, thumbnail,
                  \*                          videoFile, isPublished]
    host,         \* the media host: the assets it stores
    uploads,      \* assets uploaded to the media host so far
    creq,         \* content requests in flight / their last response, per slot
    made,         \* history: <<collection, id, owner>> of every document ever created
    purges        \* history: the deletions deleteVideo asked of the media host, a bag
                  \*          of assets

contentVars == <<tweets, comments, playlists, videos, host, uploads, creq, made, purges>>

VARIABLES
    ureq          \* account requests in flight / their last response, per slot

accountVars == <<ureq>>

VARIABLES
    vreq          \* the list or profile request in flight / its last response

viewVars == <<vreq>>

vars == <<authVars, likeVars, contentVars, accountVars, viewVars>>

\* ------------------------------------------------------- session: the store

IdleReq ==
    [op |-> "none", pc |-> "idle", username |-> Absent, email |-> Absent,
     password |-> Absent, tok |-> NoToken, uid |-> "none", gen |-> NoToken,
     status |-> 0, msg |-> "", atok |-> FALSE, rtok |-> NoToken,
     wrote |-> FALSE, stale |-> FALSE]

InitUsers ==
    [u \in UserIds |->
        IF u = "u1"
        THEN [username |-> "n1", email |-> "e1", password |-> "pwA", refreshToken |-> NoToken,
              fullName |-> "f1", avtar |-> 0, coverImage |-> 0]
        ELSE [username |-> "n2", email |-> "e2", password |-> "pwB", refreshToken |-> NoToken,
              fullName |-> "f2", avtar |-> 0, coverImage |-> 0]]

\* User.findOne({$or: [{username}, {email}]}): the documents either condition
\* matches.  An undefined value is sent as null and matches no document, since
\* every User has both fields.
FindOneByUsernameOrEmail(us, username, email) ==
    {u \in DOMAIN us :
        \/ (username # Absent /\ us[u].username = username)
        \/ (email # Absent /\ us[u].email = email)}

\* user.isPasswordCorrect(password): the credential check of the User model.
isPasswordCorrect(user, password) == user.password = password

\* user.generateRefreshToken(): a token for this user that no earlier call returned.
generateRefreshToken(u, iss) == [uid |-> u, n |-> Cardinality(iss) + 1]

\* user.refreshToken = refreshToken; await user.save(): only the modified path is
\* written.
SaveRefreshToken(us, u, tok) == [us EXCEPT ![u].refreshToken = tok]

\* Fault variant: a verification that tests the signature only.
JwtVerifyIgnoresExpiry(tok, upTo) == tok = GarbageToken

\* jwt.verify(token, REFRESH_TOKEN_SECRET): throws on a bad signature or a past expiry.
JwtVerifyFails(tok, upTo) ==
    \/ tok = GarbageToken
    \/ (tok.n # 0 /\ tok.n <= upTo)

\* Fault variant: the comparison with the stored token left out.
TokenMismatchNever(incoming, stored) == FALSE

\* incomingRefreshToken !== user.refreshToken
TokenMismatch(incoming, stored) == incoming # stored

\* const { accessToken, newRefreshToken } = {...}: destructuring reads the property
\* of that name, undefined when the object has none.
Field(obj, name) == IF name \in DOMAIN obj THEN obj[name] ELSE NoToken

\* What `$set: {refreshToken: undefined}` leaves in the document.  Mongoose up to 5
\* sends the undefined value as null; Mongoose 6 and later strip an undefined key
\* from the update, which then changes nothing.
SetUndefinedOutcomes(old) == {NoToken, old}

Respond(r, status, msg) == [r EXCEPT !.pc = "done", !.status = status, !.msg = msg]

Free(p) == areq[p].pc \in {"idle", "done"}

\* A session step touches nothing of the other families.
AuthOnly == UNCHANGED <<likeVars, contentVars, accountVars, viewVars>>

AuthFrame ==
    /\ AuthOnly
    /\ UNCHANGED <<issued, expiredUpTo, authed, consumed, lastWriter, sinceLogout, lastDone>>

\* --------------------------------------------------------------- loginUser

\* Fault variant: || in place of &&, so both identifiers are demanded.
MissingIdentifierEither(username, email) == username = Absent \/ email = Absent

\* if (!username && !email): the request names no account.
MissingIdentifier(username, email) == username = Absent /\ email = Absent

\* req.body is read and the identifier check runs; then User.findOne is awaited.
loginUser_start(p, username, email, password) ==
    /\ Free(p)
    /\ LET r == [IdleReq EXCEPT !.op = "login", !.username = username,
                                !.email = email, !.password = password]
       IN areq' = [areq EXCEPT ![p] =
            IF MissingIdentifier(username, email)
            THEN Respond(r, 404, "username or email required")
            ELSE [r EXCEPT !.pc = "findOne"]]
    /\ UNCHANGED users
    /\ AuthFrame

\* findOne resolves; the password is compared against the document read.
loginUser_findOne(p) ==
    /\ areq[p].op = "login" /\ areq[p].pc = "findOne"
    /\ LET r == areq[p]
           found == FindOneByUsernameOrEmail(users, r.username, r.email)
       IN IF found = {}
          THEN areq' = [areq EXCEPT ![p] = Respond(r, 404, "User not found")]
          ELSE \E u \in found :
                areq' = [areq EXCEPT ![p] =
                    IF ~isPasswordCorrect(users[u], r.password)
                    THEN Respond([r EXCEPT !.uid = u], 401, "Invalid User Credentials")
                    ELSE [r EXCEPT !.uid = u, !.pc = "generate"]]
    /\ UNCHANGED users
    /\ AuthFrame

\* generateAccessAndRefreshTokens(userId): the tokens are generated and the refresh
\* token is saved on the user.
generateAccessAndRefreshTokens(p) ==
    /\ areq[p].pc = "generate"
    /\ Cardinality(issued) < MaxRotations
    /\ LET u == areq[p].uid
           refreshToken == generateRefreshToken(u, issued)
       IN /\ users' = SaveRefreshToken(users, u, refreshToken)
          /\ issued' = issued \cup {refreshToken}
          /\ areq' = [areq EXCEPT ![p].gen = refreshToken, ![p].wrote = TRUE,
                                  ![p].pc = "respond"]
          /\ lastWriter' = [lastWriter EXCEPT ![u] = p]
          /\ sinceLogout' = [sinceLogout EXCEPT ![u] = FALSE]
    /\ UNCHANGED <<expiredUpTo, authed, consumed, lastDone>>
    /\ AuthOnly

\* The user is read again for the response body, and the response is sent.
loginUser_respond(p) ==
    /\ areq[p].op = "login" /\ areq[p].pc = "respond"
    /\ LET r == areq[p]
           result == [accessToken |-> TRUE, refreshToken |-> r.gen]
       IN areq' = [areq EXCEPT ![p] =
            [Respond(r, 200, "User logged in successfully")
                EXCEPT !.atok = result.accessToken,
                       !.rtok = Field(result, "refreshToken")]]
    /\ authed' = authed \cup {areq[p].uid}
    /\ lastDone' = [lastDone EXCEPT ![areq[p].uid] = p]
    /\ UNCHANGED <<users, issued, expiredUpTo, consumed, lastWriter, sinceLogout>>
    /\ AuthOnly

\* -------------------------------------------------------------- logoutUser

\* verifyJWT has set req.user; User.findByIdAndUpdate is issued.
logoutUser_start(p, u) ==
    /\ Free(p)
    /\ u \in authed
    /\ areq' = [areq EXCEPT ![p] = [IdleReq EXCEPT !.op = "logout", !.uid = u, !.pc = "update"]]
    /\ UNCHANGED users
    /\ AuthFrame

\* The update `$set: {refreshToken: undefined}` is applied by the store.
logoutUser_update(p) ==
    /\ areq[p].op = "logout" /\ areq[p].pc = "update"
    /\ LET u == areq[p].uid
       IN /\ \E v \in SetUndefinedOutcomes(users[u].refreshToken) :
                users' = [users EXCEPT ![u].refreshToken = v]
          /\ lastWriter' = [lastWriter EXCEPT ![u] = p]
          /\ sinceLogout' = [sinceLogout EXCEPT ![u] = TRUE]
    /\ areq' = [areq EXCEPT ![p].pc = "respond", ![p].wrote = TRUE]
    /\ UNCHANGED <<issued, expiredUpTo, authed, consumed, lastDone>>
    /\ AuthOnly

logoutUser_respond(p) ==
    /\ areq[p].op = "logout" /\ areq[p].pc = "respond"
    /\ areq' = [areq EXCEPT ![p] = Respond(areq[p], 200, "User logout successfully")]
    /\ UNCHANGED users
    /\ AuthFrame

\* ------------------------------------------------------ refreshAccessToken

\* The cookie/body token is read and verified; then User.findById is awaited.
refreshAccessToken_start(p, incomingRefreshToken) ==
    /\ Free(p)
    /\ LET r == [IdleReq EXCEPT !.op = "refresh", !.tok = incomingRefreshToken,
                                !.stale = incomingRefreshToken \in consumed]
       IN areq' = [areq EXCEPT ![p] =
            IF incomingRefreshToken = NoToken
            THEN Respond(r, 401, "Unauthorized request")
            ELSE IF JwtVerifyFails(incomingRefreshToken, expiredUpTo)
            THEN Respond(r, 401, "jwt error")
            ELSE [r EXCEPT !.pc = "findById"]]
    /\ UNCHANGED users
    /\ AuthFrame

\* findById(decodedToken._id) resolves and the token is compared with the stored one.
refreshAccessToken_findById(p) ==
    /\ areq[p].op = "refresh" /\ areq[p].pc = "findById"
    /\ LET r == areq[p]
           u == r.tok.uid
       IN areq' = [areq EXCEPT ![p] =
            IF u \notin DOMAIN users
            THEN Respond(r, 401, "Invalid refresh token")
            ELSE IF TokenMismatch(r.tok, users[u].refreshToken)
            THEN Respond(r, 401, "Refresh token is expired or used")
            ELSE [r EXCEPT !.uid = u, !.pc = "generate"]]
    /\ UNCHANGED users
    /\ AuthFrame

\* generateAccessAndRefreshTokens has returned; the response is sent.
refreshAccessToken_respond(p) ==
    /\ areq[p].op = "refresh" /\ areq[p].pc = "respond"
    /\ LET r == areq[p]
           result == [accessToken |-> TRUE, refreshToken |-> r.gen]
       IN areq' = [areq EXCEPT ![p] =
            [Respond(r, 200, "Access token refreshed")
                EXCEPT !.atok = Field(result, "accessToken") = TRUE,
                       !.rtok = Field(result, "newRefreshToken")]]
    /\ authed' = authed \cup {areq[p].uid}
    /\ consumed' = consumed \cup {areq[p].tok}
    /\ lastDone' = [lastDone EXCEPT ![areq[p].uid] = p]
    /\ UNCHANGED <<users, issued, expiredUpTo, lastWriter, sinceLogout>>
    /\ AuthOnly

\* Time passes: the oldest unexpired refresh token reaches its expiry (all tokens
\* live equally long, so they expire in the order they were issued).
TokenExpires ==
    /\ expiredUpTo < Cardinality(issued)
    /\ expiredUpTo' = expiredUpTo + 1
    /\ UNCHANGED <<users, issued, authed, areq, consumed, lastWriter, sinceLogout, lastDone>>
    /\ AuthOnly

\* The tokens a client can present.
PresentableTokens == issued \cup {NoToken, GarbageToken, OrphanToken}

InitAuth ==
    /\ users = InitUsers
    /\ issued = {}
    /\ expiredUpTo = 0
    /\ authed = {}
    /\ areq = [p \in Procs |-> IdleReq]
    /\ consumed = {}
    /\ lastWriter = [u \in UserIds |-> "none"]
    /\ sinceLogout = [u \in UserIds |-> FALSE]
    /\ lastDone = [u \in UserIds |-> "none"]

\* Session handling: clients log in with their own credentials, refresh, log out.
NextAuth ==
    \/ \E p \in Procs, u \in UserIds :
            loginUser_start(p, users[u].username, Absent, users[u].password)
    \/ \E p \in Procs : loginUser_findOne(p)
    \/ \E p \in Procs :
            Cardinality(issued) < MaxTokens /\ generateAccessAndRefreshTokens(p)
    \/ \E p \in Procs : loginUser_respond(p)
    \/ \E p \in Procs, u \in UserIds : logoutUser_start(p, u)
    \/ \E p \in Procs : logoutUser_update(p)
    \/ \E p \in Procs : logoutUser_respond(p)
    \/ \E p \in Procs, t \in PresentableTokens : refreshAccessToken_start(p, t)
    \/ \E p \in Procs : refreshAccessToken_findById(p)
    \/ \E p \in Procs : refreshAccessToken_respond(p)
    \/ TokenExpires

\* Logging in: any identifier and credential a client may send.
NextLogin ==
    \/ \E p \in Procs, username \in Usernames \cup {Absent},
          email \in Emails \cup {Absent}, password \in Passwords :
            loginUser_start(p, username, email, password)
    \/ \E p \in Procs : loginUser_findOne(p)
    \/ \E p \in Procs :
            Cardinality(issued) < MaxTokens /\ generateAccessAndRefreshTokens(p)
    \/ \E p \in Procs : loginUser_respond(p)


\* One user's sessions: u1 logs in and refreshes with the tokens issued so far.
NextSession ==
    \/ \E p \in Procs : loginUser_start(p, "n1", Absent, "pwA")
    \/ \E p \in Procs : loginUser_findOne(p)
    \/ \E p \in Procs : generateAccessAndRefreshTokens(p)
    \/ \E p \in Procs : loginUser_respond(p)
    \/ \E p \in Procs, t \in issued : refreshAccessToken_start(p, t)
    \/ \E p \in Procs : refreshAccessToken_findById(p)
    \/ \E p \in Procs : refreshAccessToken_respond(p)
    \/ \E p \in Procs : logoutUser_start(p, "u1")
    \/ \E p \in Procs : logoutUser_update(p)
    \/ \E p \in Procs : logoutUser_respond(p)

\* ------------------------------------------------------ session: the claims

IsRefresh(r) == r.op = "refresh"
IsLogin(r) == r.op = "login"

\* C6: a refresh token is single-use.  Once refreshAccessToken has answered a request
\* presenting token t with success, the rotation token stored for t's user is not t,
\* and a refreshAccessToken request that presents t afterwards never gets past the
\* comparison with the stored token: it ends with 401.
C6_RefreshTokenSingleUse ==
    /\ \A t \in consumed : users[t.uid].refreshToken # t
    /\ \A p \in Procs :
        (IsRefresh(areq[p]) /\ areq[p].stale) =>
            \/ areq[p].pc = "findById"
            \/ (areq[p].pc = "done" /\ areq[p].status = 401)

\* A used token was presented again, passed jwt.verify and was refused.
C6_Witness ==
    \E p \in Procs :
        /\ IsRefresh(areq[p]) /\ areq[p].stale /\ areq[p].pc = "done"
        /\ areq[p].msg = "Refresh token is expired or used"
        /\ areq[p].tok \in consumed

\* C7: a successful refreshAccessToken returns a refreshToken that is defined and,
\* as long as nobody else has written the user's token since, is the rotation token
\* now stored for the user (so the client can refresh again with it).
C7_RefreshReturnsStoredToken ==
    \A p \in Procs :
        (IsRefresh(areq[p]) /\ areq[p].pc = "done" /\ areq[p].status = 200) =>
            /\ areq[p].rtok # NoToken
            /\ lastWriter[areq[p].uid] = p => areq[p].rtok = users[areq[p].uid].refreshToken

\* A step of p that starts a refreshAccessToken request.
C8_Starts(p) == Free(p) /\ IsRefresh(areq'[p]) /\ areq'[p] # areq[p]

\* A step of p that resolves the findById of a refreshAccessToken request.
C8_Looks(p) == IsRefresh(areq[p]) /\ areq[p].pc = "findById" /\ areq'[p] # areq[p]

C8_Ends401(p) == areq'[p].pc = "done" /\ areq'[p].status = 401

\* C8: refreshAccessToken fails with 401 when the token is missing, is no signed
\* token or is past its expiry (at the start of the request), and when it decodes
\* to no user or differs from the user's stored token (when the user is read); the
\* failing step changes no user and issues nothing, and a request answered 401 has
\* stored no token and carries none.
C8_RefreshRejects ==
    /\ [](\A p \in Procs :
            (IsRefresh(areq[p]) /\ areq[p].pc = "done" /\ areq[p].status = 401) =>
                ~areq[p].wrote /\ ~areq[p].atok /\ areq[p].rtok = NoToken
                               /\ areq[p].gen = NoToken)
    /\ [][\A p \in Procs :
            /\ (C8_Starts(p) /\ \/ areq'[p].tok = NoToken
                                \/ areq'[p].tok = GarbageToken
                                \/ areq'[p].tok.n \in 1..expiredUpTo)
                    => C8_Ends401(p)
            /\ (C8_Looks(p) /\ \/ areq[p].tok.uid \notin DOMAIN users
                               \/ areq[p].tok # users[areq[p].tok.uid].refreshToken)
                    => C8_Ends401(p)
            /\ ((C8_Starts(p) \/ C8_Looks(p)) /\ C8_Ends401(p))
                    => users' = users /\ issued' = issued /\ authed' = authed
       ]_vars

\* Each of the four refusals has happened: an expired token, a token of no user,
\* and a well-signed token that is not the stored one.
C8_Witness ==
    \E p \in Procs :
        /\ IsRefresh(areq[p]) /\ areq[p].pc = "done" /\ areq[p].status = 401
        /\ areq[p].tok \in issued /\ areq[p].tok.n <= expiredUpTo
        /\ areq[p].msg = "jwt error"
        /\ \E q \in Procs \ {p} :
            /\ IsRefresh(areq[q]) /\ areq[q].pc = "done" /\ areq[q].status = 401
            /\ areq[q].tok = OrphanToken

\* C9: after logoutUser has updated user u, and until a token is stored for u
\* again, the stored rotation token of u is cleared (so no refresh token issued to
\* u before the logout matches it).
C9_LogoutClearsToken ==
    \A u \in UserIds : sinceLogout[u] => users[u].refreshToken = NoToken

\* The accounts an identifier names.
C10_Named(r) ==
    {u \in UserIds : users[u].username = r.username \/ users[u].email = r.email}

AcceptedTokens(u) ==
    {t \in issued : /\ ~JwtVerifyFails(t, expiredUpTo)
                    /\ t.uid = u
                    /\ ~TokenMismatch(t, users[u].refreshToken)}

\* The request in slot p is a login or a refresh of u that has stored its token.
StoredTokenFor(p, u) ==
    /\ (IsLogin(areq[p]) \/ IsRefresh(areq[p]))
    /\ areq[p].uid = u /\ areq[p].wrote

\* C29: at every time at most one refresh token of a user is accepted, and it is the
\* token stored by the login or refresh of that user that was completed (answered)
\* last.
C29_OneTokenOfLastCompleted ==
    \A u \in UserIds :
        /\ Cardinality(AcceptedTokens(u)) <= 1
        /\ \A p \in Procs :
            (lastDone[u] = p /\ StoredTokenFor(p, u) /\ areq[p].pc = "done") =>
                AcceptedTokens(u) \subseteq {areq[p].gen}

\* C29, as it holds: at every time at most one refresh token of a user is accepted,
\* and it is the token stored last by a login or refresh of that user (whose
\* answer may be sent after that of a request that stored its token earlier); of
\* two logins, and of two refreshes that presented the same token, at most one has
\* generated the accepted token, and at most one was answered with it.
C29_OneTokenOfLastStore ==
    \A u \in UserIds :
        /\ Cardinality(AcceptedTokens(u)) <= 1
        /\ \A p \in Procs :
            (lastWriter[u] = p /\ StoredTokenFor(p, u)) =>
                AcceptedTokens(u) \subseteq {areq[p].gen}
        /\ \A p, q \in Procs :
            (p # q /\ StoredTokenFor(p, u) /\ StoredTokenFor(q, u)) =>
                /\ ~(areq[p].gen \in AcceptedTokens(u) /\ areq[q].gen \in AcceptedTokens(u))
                /\ ~(areq[p].rtok \in AcceptedTokens(u) /\ areq[q].rtok \in AcceptedTokens(u))

\* Two refreshes that presented the same token have interleaved and both were
\* answered 200; the token stored by one of them is accepted, the other's is not.
C29_Witness ==
    \E p, q \in Procs :
        /\ p # q
        /\ IsRefresh(areq[p]) /\ IsRefresh(areq[q])
        /\ areq[p].tok = areq[q].tok
        /\ areq[p].pc = "done" /\ areq[p].status = 200
        /\ areq[q].pc = "done" /\ areq[q].status = 200
        /\ areq[p].gen \in AcceptedTokens(areq[p].uid)
        /\ areq[q].gen \notin AcceptedTokens(areq[q].uid)

\* ------------------------------------------------------------ like toggles

\* Path parameters a client may send: a well-formed ObjectId per kind of target,
\* and a string that is no ObjectId.
VideoIds == {"v1"}
CommentIds == {"c1"}
TweetIds == {"t1"}
BadId == "not-an-id"

\* !(id && isValidObjectId(id))
InvalidId(id) == id = Absent \/ id = BadId

IdleLike ==
    [op |-> "none", pc |-> "idle", user |-> "none", target |-> Absent,
     found |-> 0, status |-> 0, isLiked |-> Absent, body |-> "none"]

LikeFree(p) == lreq[p].pc \in {"idle", "done"}

\* A like step touches nothing of the other families.
LikeOnly == UNCHANGED <<authVars, contentVars, accountVars, viewVars>>

\* The Like documents of a (kind, target, likedBy) triple.
LikesOf(ls, kind, target, user) ==
    {l \in ls : l.kind = kind /\ l.target = target /\ l.likedBy = user}

\* Like.findOne({<kind>: id, likedBy}): the _id of a matching document, 0 for null.
LikeFindOne(ls, kind, target, user) ==
    IF LikesOf(ls, kind, target, user) = {} THEN {0}
    ELSE {l.id : l \in LikesOf(ls, kind, target, user)}

\* Like.create({<kind>: id, likedBy}): the collection takes the document as it
\* comes; no unique index on (likedBy, target) refuses a second one.
LikeCreate(ls, doc) == ls \cup {doc}

\* Like.findByIdAndDelete(id): nothing happens when the document is gone.
LikeFindByIdAndDelete(ls, id) == {l \in ls : l.id # id}

NoRun == [stage |-> 0, kind |-> "none", target |-> Absent, user |-> "none", before |-> FALSE]

SamePair(r, kind, target, user) ==
    r.kind = kind /\ r.target = target /\ r.user = user

\* History of a toggle of (kind, target, user) starting in slot p.  A run is
\* recorded from a state in which no request on the pair is in flight: stage 1 and
\* 3 are the first and the second toggle running, 2 and 4 are the states after
\* each.  Any other request on the pair while a toggle of the run is in flight
\* ends the run.
RunAtStart(p, kind, target, user) ==
    LET busy == \E q \in Procs \ {p} :
                    /\ ~LikeFree(q)
                    /\ lreq[q].op = kind /\ lreq[q].target = target /\ lreq[q].user = user
    IN  IF busy
        THEN (IF SamePair(pairRun, kind, target, user) THEN NoRun ELSE pairRun)
        ELSE IF SamePair(pairRun, kind, target, user) /\ pairRun.stage = 2
        THEN [pairRun EXCEPT !.stage = 3]
        ELSE IF pairRun.stage \in {0, 4} \/ SamePair(pairRun, kind, target, user)
        THEN [stage |-> 1, kind |-> kind, target |-> target, user |-> user,
              before |-> LikesOf(likes, kind, target, user) # {}]
        ELSE pairRun

RunAtEnd(p) ==
    IF SamePair(pairRun, lreq[p].op, lreq[p].target, lreq[p].user)
            /\ pairRun.stage \in {1, 3}
    THEN [pairRun EXCEPT !.stage = pairRun.stage + 1]
    ELSE pairRun

\* The id is validated, then Like.findOne is awaited.
ToggleStart(p, kind, user, target) ==
    /\ LikeFree(p)
    /\ LET r == [IdleLike EXCEPT !.op = kind, !.user = user, !.target = target]
       IN IF InvalidId(target)
          THEN /\ lreq' = [lreq EXCEPT ![p] = [r EXCEPT !.pc = "done", !.status = 400,
                                                         !.body = "ApiError"]]
               /\ UNCHANGED pairRun
          ELSE /\ lreq' = [lreq EXCEPT ![p] = [r EXCEPT !.pc = "findOne"]]
               /\ pairRun' = RunAtStart(p, kind, target, user)
    /\ UNCHANGED <<likes, likeIds>>
    /\ LikeOnly

\* findOne resolves: findByIdAndDelete is awaited if a document was found,
\* Like.create otherwise.
ToggleFindOne(p) ==
    /\ lreq[p].pc = "findOne"
    /\ \E alreadyLiked \in LikeFindOne(likes, lreq[p].op, lreq[p].target, lreq[p].user) :
        lreq' = [lreq EXCEPT ![p].found = alreadyLiked,
                             ![p].pc = IF alreadyLiked # 0 THEN "delete" ELSE "create"]
    /\ UNCHANGED <<likes, likeIds, pairRun>>
    /\ LikeOnly

\* findByIdAndDelete is applied and the handler answers {isLiked: false}.
ToggleDelete(p) ==
    /\ lreq[p].pc = "delete"
    /\ likes' = LikeFindByIdAndDelete(likes, lreq[p].found)
    /\ lreq' = [lreq EXCEPT ![p].pc = "done", ![p].status = 200, ![p].found = 0,
                            ![p].isLiked = "false", ![p].body = "ApiResponse"]
    /\ pairRun' = RunAtEnd(p)
    /\ UNCHANGED likeIds
    /\ LikeOnly

\* Like.create is applied and the handler answers with the new document (create
\* resolves with the document, so if (!likedVideo) throw new ApiResponse(500, ...)
\* is not taken); the isLiked of the answer is that of the document, which has none.
ToggleCreate(p) ==
    /\ lreq[p].pc = "create"
    /\ Cardinality(likeIds) < MaxLikes
    /\ LET id == Cardinality(likeIds) + 1
           doc == [id |-> id, kind |-> lreq[p].op, target |-> lreq[p].target,
                   likedBy |-> lreq[p].user]
       IN /\ likes' = LikeCreate(likes, doc)
          /\ likeIds' = likeIds \cup {id}
          /\ lreq' = [lreq EXCEPT ![p].pc = "done", ![p].status = 200,
                                  ![p].isLiked = IF "isLiked" \in DOMAIN doc
                                                 THEN doc.isLiked ELSE Absent,
                                  ![p].body = "ApiResponse"]
    /\ pairRun' = RunAtEnd(p)
    /\ LikeOnly

toggleVideoLike_start(p, user, videoId) ==
    /\ videoId \in VideoIds \cup {BadId}
    /\ ToggleStart(p, "video", user, videoId)
toggleVideoLike_findOne(p) == lreq[p].op = "video" /\ ToggleFindOne(p)
toggleVideoLike_delete(p) == lreq[p].op = "video" /\ ToggleDelete(p)
toggleVideoLike_create(p) == lreq[p].op = "video" /\ ToggleCreate(p)

toggleCommentLike_start(p, user, commentId) ==
    /\ commentId \in CommentIds \cup {BadId}
    /\ ToggleStart(p, "comment", user, commentId)
toggleCommentLike_findOne(p) == lreq[p].op = "comment" /\ ToggleFindOne(p)
toggleCommentLike_delete(p) == lreq[p].op = "comment" /\ ToggleDelete(p)
toggleCommentLike_create(p) == lreq[p].op = "comment" /\ ToggleCreate(p)

toggleTweetLike_start(p, user, tweetId) ==
    /\ tweetId \in TweetIds \cup {BadId}
    /\ ToggleStart(p, "tweet", user, tweetId)
toggleTweetLike_findOne(p) == lreq[p].op = "tweet" /\ ToggleFindOne(p)
toggleTweetLike_delete(p) == lreq[p].op = "tweet" /\ ToggleDelete(p)
toggleTweetLike_create(p) == lreq[p].op = "tweet" /\ ToggleCreate(p)

InitLike ==
    /\ likes = {}
    /\ likeIds = {}
    /\ lreq = [p \in Procs |-> IdleLike]
    /\ pairRun = NoRun

NextLike ==
    \/ \E p \in Procs, u \in UserIds, id \in VideoIds \cup {BadId} :
            toggleVideoLike_start(p, u, id)
    \/ \E p \in Procs : toggleVideoLike_findOne(p)
    \/ \E p \in Procs : toggleVideoLike_delete(p)
    \/ \E p \in Procs : toggleVideoLike_create(p)
    \/ \E p \in Procs, u \in UserIds, id \in CommentIds \cup {BadId} :
            toggleCommentLike_start(p, u, id)
    \/ \E p \in Procs : toggleCommentLike_findOne(p)
    \/ \E p \in Procs : toggleCommentLike_delete(p)
    \/ \E p \in Procs : toggleCommentLike_create(p)
    \/ \E p \in Procs, u \in UserIds, id \in TweetIds \cup {BadId} :
            toggleTweetLike_start(p, u, id)
    \/ \E p \in Procs : toggleTweetLike_findOne(p)
    \/ \E p \in Procs : toggleTweetLike_delete(p)
    \/ \E p \in Procs : toggleTweetLike_create(p)

\* --------------------------------------------------- like toggles: the claims

LikeKinds == {"video", "comment", "tweet"}
LikeTargets == VideoIds \cup CommentIds \cup TweetIds

\* C4: no (likedBy, target) pair has more than one Like document.
C4_OneLikePerPair ==
    \A kind \in LikeKinds, target \in LikeTargets, u \in UserIds :
        Cardinality(LikesOf(likes, kind, target, u)) <= 1

\* C5: when two toggles of one (user, target) pair have run one after the other,
\* with no other request on the pair meanwhile, the pair is liked exactly if it was
\* liked before the first of them.
C5_TwoTogglesRestore ==
    pairRun.stage = 4 =>
        (LikesOf(likes, pairRun.kind, pairRun.target, pairRun.user) # {}) = pairRun.before

\* C27: the answer of a like toggle that succeeded, from the branch that deleted
\* the Like as from the branch that created it, carries the membership as a boolean
\* isLiked.
C27_ToggleAnswersMembership ==
    \A p \in Procs :
        (lreq[p].pc = "done" /\ lreq[p].status = 200) =>
            lreq[p].isLiked \in {"true", "false"}

\* ------------------------------------------------- content: store and helpers

\* Texts a client sends when it creates a document and when it updates one; an
\* update may also leave a field out.
CreateTexts == {"a"}
UpdateTexts == {"b", Absent}

\* A malformed (or missing) id, and a well-formed id of no document.
BadDocId == 0
NoSuchDocId == 99

\* No asset: the url of an upload that failed.
NoAsset == 0

\* What Video.findById gives for an id of no video (null).
NoVideo ==
    [owner |-> Absent, title |-> Absent, description |-> Absent,
     videoFile |-> NoAsset, thumbnail |-> NoAsset, isPublished |-> FALSE]

\* A request slot: the handler (op), its position (pc), the requester (user), the
\* ids and texts it was sent (id, vid, a1, a2, file), the video it read (doc), the
\* playlist owner it read (powner), the asset it uploaded (up), whether its
\* findByIdAndUpdate gave a document back (updated), whether it changed a document
\* or the media host (wrote), and the HTTP status it answered.
IdleC ==
    [op |-> "none", pc |-> "idle", user |-> "none", id |-> BadDocId, vid |-> BadDocId,
     a1 |-> Absent, a2 |-> Absent, file |-> FALSE, doc |-> NoVideo, powner |-> Absent,
     up |-> NoAsset, updated |-> FALSE, wrote |-> FALSE, status |-> 0]

CFree(p) == creq[p].pc \in {"idle", "done"}

\* A content step touches nothing of the other families.
ContentOnly == UNCHANGED <<authVars, likeVars, accountVars, viewVars>>

\* isValidObjectId(id), with the presence test some handlers put before it (a missing
\* id is no ObjectId either).
IsValidObjectId(id) == id # BadDocId

\* The ids a client can name in collection kind: the documents ever created there,
\* a malformed id and a well-formed id of no document.
KnownIds(kind) == {m[2] : m \in {x \in made : x[1] = kind}} \cup {BadDocId, NoSuchDocId}

MadeCount(kind) == Cardinality({x \in made : x[1] = kind})

\* The owner of a document ever created (owners never change).
OwnerOf(kind, id) == (CHOOSE x \in made : x[1] = kind /\ x[2] = id)[3]

EverMade(kind, id) == \E x \in made : x[1] = kind /\ x[2] = id

\* Model.findByIdAndDelete(id) and Model.findByIdAndUpdate(id, ...) on a collection
\* held as a function from id to document.
Remove(coll, id) == [k \in DOMAIN coll \ {id} |-> coll[k]]
Insert(coll, id, doc) == [k \in DOMAIN coll \cup {id} |-> IF k = id THEN doc ELSE coll[k]]

\* The response is sent: the slot keeps who asked for what (but not the texts
\* sent with a video), and the status.
CDone(p, r, status) ==
    LET kept == IF r.op \in {"publishAVideo", "updateVideo"} THEN IdleC ELSE r
    IN creq' = [creq EXCEPT ![p] =
        [IdleC EXCEPT !.op = r.op, !.user = r.user, !.id = r.id, !.vid = r.vid,
                      !.a1 = kept.a1, !.a2 = kept.a2, !.wrote = r.wrote,
                      !.pc = "done", !.status = status]]

\* Collection kind may be worked on: it holds documents already, or fewer than
\* MaxCollections collections do.
Exercised(kind) ==
    Cardinality(({x[1] : x \in made} \ {"video"}) \cup {kind}) <= MaxCollections

CGoto(p, r, pc) == creq' = [creq EXCEPT ![p] = [r EXCEPT !.pc = pc]]

\* Fault variant: the owner comparison left out.
NotOwnerNever(owner, user) == FALSE

\* record.owner.toString() !== req.user._id.toString()
NotOwner(owner, user) == owner # user

\* ------------------------------------------------------------------ tweets

TweetFrame == UNCHANGED <<comments, playlists, videos, host, uploads, purges>> /\ ContentOnly

\* createTweet: the content is validated and Tweet.create is awaited.
createTweet(p, user, content) ==
    /\ CFree(p)
    /\ Exercised("tweet")
    /\ LET r == [IdleC EXCEPT !.op = "createTweet", !.user = user, !.a1 = content]
           id == MadeCount("tweet") + 1
       IN IF content = Absent
          THEN CDone(p, r, 400) /\ UNCHANGED <<tweets, made>>
          ELSE /\ id <= MaxDocs
               /\ tweets' = Insert(tweets, id, [owner |-> user, content |-> content])
               /\ made' = made \cup {<<"tweet", id, user>>}
               /\ CDone(p, [r EXCEPT !.id = id], 200)
    /\ TweetFrame

updateTweet_start(p, user, tweetId, content) ==
    /\ CFree(p)
    /\ Exercised("tweet")
    /\ LET r == [IdleC EXCEPT !.op = "updateTweet", !.user = user, !.id = tweetId,
                              !.a1 = content]
       IN IF content = Absent \/ ~IsValidObjectId(tweetId)
          THEN CDone(p, r, 400)
          ELSE CGoto(p, r, "findById")
    /\ UNCHANGED <<tweets, made>>
    /\ TweetFrame

updateTweet_findById(p) ==
    /\ creq[p].op = "updateTweet" /\ creq[p].pc = "findById"
    /\ LET r == creq[p]
       IN IF r.id \notin DOMAIN tweets
          THEN CDone(p, r, 404)
          ELSE IF NotOwner(tweets[r.id].owner, r.user)
          THEN CDone(p, r, 400)
          ELSE CGoto(p, r, "write")
    /\ UNCHANGED <<tweets, made>>
    /\ TweetFrame

\* Tweet.findByIdAndUpdate(tweetId, {$set: {content}}): null when the tweet is gone.
updateTweet_update(p) ==
    /\ creq[p].op = "updateTweet" /\ creq[p].pc = "write"
    /\ LET r == creq[p]
       IN IF r.id \in DOMAIN tweets
          THEN /\ tweets' = [tweets EXCEPT ![r.id].content = r.a1]
               /\ CDone(p, r, 200)
          ELSE /\ UNCHANGED tweets
               /\ CDone(p, r, 500)
    /\ UNCHANGED made
    /\ TweetFrame

deleteTweet_start(p, user, tweetId) ==
    /\ CFree(p)
    /\ Exercised("tweet")
    /\ LET r == [IdleC EXCEPT !.op = "deleteTweet", !.user = user, !.id = tweetId]
       IN IF ~IsValidObjectId(tweetId)
          THEN CDone(p, r, 400)
          ELSE CGoto(p, r, "findById")
    /\ UNCHANGED <<tweets, made>>
    /\ TweetFrame

deleteTweet_findById(p) ==
    /\ creq[p].op = "deleteTweet" /\ creq[p].pc = "findById"
    /\ LET r == creq[p]
       IN IF r.id \notin DOMAIN tweets
          THEN CDone(p, r, 404)
          ELSE IF NotOwner(tweets[r.id].owner, r.user)
          THEN CDone(p, r, 400)
          ELSE CGoto(p, r, "write")
    /\ UNCHANGED <<tweets, made>>
    /\ TweetFrame

\* Tweet.findByIdAndDelete(tweetId): null when the tweet is gone.
deleteTweet_delete(p) ==
    /\ creq[p].op = "deleteTweet" /\ creq[p].pc = "write"
    /\ LET r == creq[p]
       IN IF r.id \in DOMAIN tweets
          THEN /\ tweets' = Remove(tweets, r.id)
               /\ CDone(p, r, 200)
          ELSE /\ UNCHANGED tweets
               /\ CDone(p, r, 500)
    /\ UNCHANGED made
    /\ TweetFrame

\* ---------------------------------------------------------------- comments

CommentFrame == UNCHANGED <<tweets, playlists, videos, host, uploads, purges>> /\ ContentOnly

\* addComment: the video id and the content are validated (the video is not looked
\* up) and Comment.create is awaited.
addComment(p, user, videoId, content) ==
    /\ CFree(p)
    /\ Exercised("comment")
    /\ LET r == [IdleC EXCEPT !.op = "addComment", !.user = user, !.vid = videoId,
                              !.a1 = content]
           id == MadeCount("comment") + 1
       IN IF ~IsValidObjectId(videoId) \/ content = Absent
          THEN CDone(p, r, 400) /\ UNCHANGED <<comments, made>>
          ELSE /\ id <= MaxDocs
               /\ comments' = Insert(comments, id,
                                [owner |-> user, video |-> videoId, content |-> content])
               /\ made' = made \cup {<<"comment", id, user>>}
               /\ CDone(p, [r EXCEPT !.id = id], 200)
    /\ CommentFrame

updateComment_start(p, user, commentId, content) ==
    /\ CFree(p)
    /\ Exercised("comment")
    /\ LET r == [IdleC EXCEPT !.op = "updateComment", !.user = user, !.id = commentId,
                              !.a1 = content]
       IN IF ~IsValidObjectId(commentId) \/ content = Absent
          THEN CDone(p, r, 400)
          ELSE CGoto(p, r, "findById")
    /\ UNCHANGED <<comments, made>>
    /\ CommentFrame

\* getComment?.owner.toString(): a TypeError (answered 500) when the comment is gone.
updateComment_findById(p) ==
    /\ creq[p].op = "updateComment" /\ creq[p].pc = "findById"
    /\ LET r == creq[p]
       IN IF r.id \notin DOMAIN comments
          THEN CDone(p, r, 500)
          ELSE IF NotOwner(comments[r.id].owner, r.user)
          THEN CDone(p, r, 400)
          ELSE CGoto(p, r, "write")
    /\ UNCHANGED <<comments, made>>
    /\ CommentFrame

updateComment_update(p) ==
    /\ creq[p].op = "updateComment" /\ creq[p].pc = "write"
    /\ LET r == creq[p]
       IN IF r.id \in DOMAIN comments
          THEN /\ comments' = [comments EXCEPT ![r.id].content = r.a1]
               /\ CDone(p, r, 200)
          ELSE /\ UNCHANGED comments
               /\ CDone(p, r, 500)
    /\ UNCHANGED made
    /\ CommentFrame

deleteComment_start(p, user, commentId) ==
    /\ CFree(p)
    /\ Exercised("comment")
    /\ LET r == [IdleC EXCEPT !.op = "deleteComment", !.user = user, !.id = commentId]
       IN IF ~IsValidObjectId(commentId)
          THEN CDone(p, r, 400)
          ELSE CGoto(p, r, "findById")
    /\ UNCHANGED <<comments, made>>
    /\ CommentFrame

deleteComment_findById(p) ==
    /\ creq[p].op = "deleteComment" /\ creq[p].pc = "findById"
    /\ LET r == creq[p]
       IN IF r.id \notin DOMAIN comments
          THEN CDone(p, r, 500)
          ELSE IF NotOwner(comments[r.id].owner, r.user)
          THEN CDone(p, r, 400)
          ELSE CGoto(p, r, "write")
    /\ UNCHANGED <<comments, made>>
    /\ CommentFrame

deleteComment_delete(p) ==
    /\ creq[p].op = "deleteComment" /\ creq[p].pc = "write"
    /\ LET r == creq[p]
       IN IF r.id \in DOMAIN comments
          THEN /\ comments' = Remove(comments, r.id)
               /\ CDone(p, r, 200)
          ELSE /\ UNCHANGED comments
               /\ CDone(p, r, 500)
    /\ UNCHANGED made
    /\ CommentFrame

\* --------------------------------------------------------------- playlists

PlaylistFrame == UNCHANGED <<tweets, comments, videos, host, uploads, purges>> /\ ContentOnly

\* createPlaylist: name and description are validated and Playlist.create is awaited.
createPlaylist(p, user, name, description) ==
    /\ CFree(p)
    /\ Exercised("playlist")
    /\ LET r == [IdleC EXCEPT !.op = "createPlaylist", !.user = user, !.a1 = name,
                              !.a2 = description]
           id == MadeCount("playlist") + 1
       IN IF name = Absent \/ description = Absent
          THEN CDone(p, r, 400) /\ UNCHANGED <<playlists, made>>
          ELSE /\ id <= MaxDocs
               /\ playlists' = Insert(playlists, id,
                    [owner |-> user, name |-> name, description |-> description,
                     videos |-> {}])
               /\ made' = made \cup {<<"playlist", id, user>>}
               /\ CDone(p, [r EXCEPT !.id = id], 200)
    /\ PlaylistFrame

updatePlaylist_start(p, user, playlistId, name, description) ==
    /\ CFree(p)
    /\ Exercised("playlist")
    /\ LET r == [IdleC EXCEPT !.op = "updatePlaylist", !.user = user, !.id = playlistId,
                              !.a1 = name, !.a2 = description]
       IN IF ~IsValidObjectId(playlistId) \/ name = Absent \/ description = Absent
          THEN CDone(p, r, 400)
          ELSE CGoto(p, r, "findById")
    /\ UNCHANGED <<playlists, made>>
    /\ PlaylistFrame

updatePlaylist_findById(p) ==
    /\ creq[p].op = "updatePlaylist" /\ creq[p].pc = "findById"
    /\ LET r == creq[p]
       IN IF r.id \notin DOMAIN playlists
          THEN CDone(p, r, 400)
          ELSE IF NotOwner(playlists[r.id].owner, r.user)
          THEN CDone(p, r, 400)
          ELSE CGoto(p, r, "write")
    /\ UNCHANGED <<playlists, made>>
    /\ PlaylistFrame

updatePlaylist_update(p) ==
    /\ creq[p].op = "updatePlaylist" /\ creq[p].pc = "write"
    /\ LET r == creq[p]
       IN IF r.id \in DOMAIN playlists
          THEN /\ playlists' = [playlists EXCEPT ![r.id].name = r.a1,
                                                 ![r.id].description = r.a2]
               /\ CDone(p, r, 200)
          ELSE /\ UNCHANGED playlists
               /\ CDone(p, r, 400)
    /\ UNCHANGED made
    /\ PlaylistFrame

deletePlaylist_start(p, user, playlistId) ==
    /\ CFree(p)
    /\ Exercised("playlist")
    /\ LET r == [IdleC EXCEPT !.op = "deletePlaylist", !.user = user, !.id = playlistId]
       IN IF ~IsValidObjectId(playlistId)
          THEN CDone(p, r, 400)
          ELSE CGoto(p, r, "findById")
    /\ UNCHANGED <<playlists, made>>
    /\ PlaylistFrame

deletePlaylist_findById(p) ==
    /\ creq[p].op = "deletePlaylist" /\ creq[p].pc = "findById"
    /\ LET r == creq[p]
       IN IF r.id \notin DOMAIN playlists
          THEN CDone(p, r, 400)
          ELSE IF NotOwner(playlists[r.id].owner, r.user)
          THEN CDone(p, r, 400)
          ELSE CGoto(p, r, "write")
    /\ UNCHANGED <<playlists, made>>
    /\ PlaylistFrame

deletePlaylist_delete(p) ==
    /\ creq[p].op = "deletePlaylist" /\ creq[p].pc = "write"
    /\ LET r == creq[p]
       IN IF r.id \in DOMAIN playlists
          THEN /\ playlists' = Remove(playlists, r.id)
               /\ CDone(p, r, 200)
          ELSE /\ UNCHANGED playlists
               /\ CDone(p, r, 400)
    /\ UNCHANGED made
    /\ PlaylistFrame

\* ------------------------------------------------------------------ videos

VideoFrame == UNCHANGED <<tweets, comments, playlists>> /\ ContentOnly

\* uploadOnCloudinary(localPath): the asset is on the media host and its url comes
\* back, or the upload fails and null comes back.
UploadOutcomes(n) == {n + 1, NoAsset}

\* deleteFromCloudinary(publicId)
Purge(h, asset) == h \ {asset}

\* What a deletion asked of the media host does: the asset is deleted, or the media
\* host fails; the failure is logged and the call returns to its caller.
PurgeOutcomes == {"deleted", "failed"}

\* deleteVideo asks the media host to delete asset.
Asked(log, asset) == log (+) SetToBag({asset})

\* Requests that are on their way to create a document in collection kind.
Creating(kind) ==
    Cardinality({q \in Procs : /\ creq[q].pc \notin {"idle", "done"}
                               /\ kind = "video" /\ creq[q].op = "publishAVideo"})

\* publishAVideo: title, description and the two uploaded files are validated.
publishAVideo_start(p, user, title, description, files) ==
    /\ CFree(p)
    /\ MadeCount("video") + Creating("video") < MaxDocs
    /\ LET r == [IdleC EXCEPT !.op = "publishAVideo", !.user = user, !.a1 = title,
                              !.a2 = description, !.file = files]
       IN IF title = Absent \/ description = Absent \/ ~files
          THEN CDone(p, r, 400)
          ELSE CGoto(p, r, "uploadVideoFile")
    /\ UNCHANGED <<videos, host, uploads, made, purges>>
    /\ VideoFrame

publishAVideo_uploadVideoFile(p) ==
    /\ creq[p].op = "publishAVideo" /\ creq[p].pc = "uploadVideoFile"
    /\ uploads < MaxUploads
    /\ \E url \in UploadOutcomes(uploads) :
        /\ uploads' = IF url = NoAsset THEN uploads ELSE url
        /\ host' = IF url = NoAsset THEN host ELSE host \cup {url}
        /\ CGoto(p, [creq[p] EXCEPT !.doc.videoFile = url], "uploadThumbnail")
    /\ UNCHANGED <<videos, made, purges>>
    /\ VideoFrame

publishAVideo_uploadThumbnail(p) ==
    /\ creq[p].op = "publishAVideo" /\ creq[p].pc = "uploadThumbnail"
    /\ uploads < MaxUploads
    /\ \E url \in UploadOutcomes(uploads) :
        /\ uploads' = IF url = NoAsset THEN uploads ELSE url
        /\ host' = IF url = NoAsset THEN host ELSE host \cup {url}
        /\ LET r == [creq[p] EXCEPT !.doc.thumbnail = url]
           IN IF r.doc.videoFile = NoAsset \/ url = NoAsset
              THEN CDone(p, r, 400)
              ELSE CGoto(p, r, "create")
    /\ UNCHANGED <<videos, made, purges>>
    /\ VideoFrame

\* Video.create({title, description, videoFile, thumbnail, duration, owner}); the
\* schema's default decides isPublished.
publishAVideo_create(p) ==
    /\ creq[p].op = "publishAVideo" /\ creq[p].pc = "create"
    /\ LET r == creq[p]
           id == MadeCount("video") + 1
       IN /\ id <= MaxDocs
          /\ \E published \in BOOLEAN :
                videos' = Insert(videos, id,
                    [owner |-> r.user, title |-> r.a1, description |-> r.a2,
                     videoFile |-> r.doc.videoFile, thumbnail |-> r.doc.thumbnail,
                     isPublished |-> published])
          /\ made' = made \cup {<<"video", id, r.user>>}
          /\ CDone(p, [r EXCEPT !.id = id], 201)
    /\ UNCHANGED <<host, uploads, purges>>
    /\ VideoFrame

\* updateVideo: the id, the title and the description are validated.
updateVideo_start(p, user, videoId, title, description, file) ==
    /\ CFree(p)
    /\ LET r == [IdleC EXCEPT !.op = "updateVideo", !.user = user, !.id = videoId,
                              !.a1 = title, !.a2 = description, !.file = file]
       IN IF ~IsValidObjectId(videoId) \/ title = Absent \/ description = Absent
          THEN CDone(p, r, 400)
          ELSE CGoto(p, r, "findById")
    /\ UNCHANGED <<videos, host, uploads, made, purges>>
    /\ VideoFrame

\* oldVideo = await Video.findById(videoId); oldVideo.thumbnail is a TypeError
\* (answered 500) when there is no such video; then the new thumbnail file is
\* required. The requester is not compared with the owner.
updateVideo_findById(p) ==
    /\ creq[p].op = "updateVideo" /\ creq[p].pc = "findById"
    /\ LET r == creq[p]
       IN IF r.id \notin DOMAIN videos
          THEN CDone(p, r, 500)
          ELSE IF ~r.file
          THEN CDone(p, [r EXCEPT !.doc = videos[r.id]], 400)
          ELSE CGoto(p, [r EXCEPT !.doc = videos[r.id]], "upload")
    /\ UNCHANGED <<videos, host, uploads, made, purges>>
    /\ VideoFrame

\* thumbnail = await uploadOnCloudinary(path); thumbnail.url of a failed upload is a
\* TypeError (answered 500).
updateVideo_upload(p) ==
    /\ creq[p].op = "updateVideo" /\ creq[p].pc = "upload"
    /\ uploads < MaxUploads
    /\ \E url \in UploadOutcomes(uploads) :
        /\ uploads' = IF url = NoAsset THEN uploads ELSE url
        /\ host' = IF url = NoAsset THEN host ELSE host \cup {url}
        /\ LET r == [creq[p] EXCEPT !.up = url, !.wrote = @ \/ url # NoAsset]
           IN IF url = NoAsset THEN CDone(p, r, 500) ELSE CGoto(p, r, "write")
    /\ UNCHANGED <<videos, made, purges>>
    /\ VideoFrame

\* Video.findByIdAndUpdate(videoId, {$set: {title, description, thumbnail}}); its
\* result is not tested.
updateVideo_update(p) ==
    /\ creq[p].op = "updateVideo" /\ creq[p].pc = "write"
    /\ LET r == creq[p]
       IN IF r.id \in DOMAIN videos
          THEN /\ videos' = [videos EXCEPT ![r.id].title = r.a1,
                                           ![r.id].description = r.a2,
                                           ![r.id].thumbnail = r.up]
               /\ CGoto(p, [r EXCEPT !.wrote = TRUE, !.updated = TRUE], "purge")
          ELSE /\ UNCHANGED videos
               /\ CGoto(p, r, "purge")
    /\ UNCHANGED <<host, uploads, made, purges>>
    /\ VideoFrame

\* if (oldThumbnail) await deleteFromCloudinary(publicId); then the answer.
updateVideo_deleteOld(p) ==
    /\ creq[p].op = "updateVideo" /\ creq[p].pc = "purge"
    /\ LET r == creq[p]
       IN IF r.doc.thumbnail # NoAsset
          THEN \E outcome \in PurgeOutcomes :
                    IF outcome = "deleted"
                    THEN /\ host' = Purge(host, r.doc.thumbnail)
                         /\ CDone(p, [r EXCEPT !.wrote = TRUE], 201)
                    ELSE /\ UNCHANGED host
                         /\ CDone(p, r, 201)
          ELSE /\ UNCHANGED host
               /\ CDone(p, r, 201)
    /\ UNCHANGED <<videos, uploads, made, purges>>
    /\ VideoFrame

deleteVideo_start(p, user, videoId) ==
    /\ CFree(p)
    /\ LET r == [IdleC EXCEPT !.op = "deleteVideo", !.user = user, !.id = videoId]
       IN IF ~IsValidObjectId(videoId)
          THEN CDone(p, r, 400)
          ELSE CGoto(p, r, "findById")
    /\ UNCHANGED <<videos, host, uploads, made, purges>>
    /\ VideoFrame

\* video = await Video.findById(videoId); the requester is not compared with the
\* owner.
deleteVideo_findById(p) ==
    /\ creq[p].op = "deleteVideo" /\ creq[p].pc = "findById"
    /\ LET r == creq[p]
       IN IF r.id \notin DOMAIN videos
          THEN CDone(p, r, 400)
          ELSE CGoto(p, [r EXCEPT !.doc = videos[r.id]], "write")
    /\ UNCHANGED <<videos, host, uploads, made, purges>>
    /\ VideoFrame

\* Fault variant: the result of the deletion not looked at.
DeletedNothingNever(coll, id) == FALSE

\* if (!deleteVideoDetails): findByIdAndDelete gave null, the video is gone.
DeletedNothing(coll, id) == id \notin DOMAIN coll

\* Video.findByIdAndDelete(video): null when the video is gone.
deleteVideo_delete(p) ==
    /\ creq[p].op = "deleteVideo" /\ creq[p].pc = "write"
    /\ LET r == creq[p]
       IN IF DeletedNothing(videos, r.id)
          THEN /\ UNCHANGED videos
               /\ CDone(p, r, 500)
          ELSE /\ videos' = Remove(videos, r.id)
               /\ CGoto(p, [r EXCEPT !.wrote = TRUE], "purgeVideoFile")
    /\ UNCHANGED <<host, uploads, made, purges>>
    /\ VideoFrame

\* if (video.videoFile) await deleteFromCloudinary(publicId).
deleteVideo_purgeVideoFile(p) ==
    /\ creq[p].op = "deleteVideo" /\ creq[p].pc = "purgeVideoFile"
    /\ LET r == creq[p]
       IN IF r.doc.videoFile # NoAsset
          THEN /\ purges' = Asked(purges, r.doc.videoFile)
               /\ \E outcome \in PurgeOutcomes :
                    IF outcome = "deleted"
                    THEN host' = Purge(host, r.doc.videoFile)
                    ELSE UNCHANGED host
               /\ CGoto(p, r, "purgeThumbnail")
          ELSE /\ UNCHANGED <<host, purges>>
               /\ CGoto(p, r, "purgeThumbnail")
    /\ UNCHANGED <<videos, uploads, made>>
    /\ VideoFrame

\* if (video.thumbnail) await deleteFromCloudinary(publicId); then the answer.
deleteVideo_purgeThumbnail(p) ==
    /\ creq[p].op = "deleteVideo" /\ creq[p].pc = "purgeThumbnail"
    /\ LET r == creq[p]
       IN IF r.doc.thumbnail # NoAsset
          THEN /\ purges' = Asked(purges, r.doc.thumbnail)
               /\ \E outcome \in PurgeOutcomes :
                    IF outcome = "deleted"
                    THEN host' = Purge(host, r.doc.thumbnail)
                    ELSE UNCHANGED host
               /\ CDone(p, r, 201)
          ELSE /\ UNCHANGED <<host, purges>>
               /\ CDone(p, r, 201)
    /\ UNCHANGED <<videos, uploads, made>>
    /\ VideoFrame

togglePublishStatus_start(p, user, videoId) ==
    /\ CFree(p)
    /\ LET r == [IdleC EXCEPT !.op = "togglePublishStatus", !.user = user,
                              !.id = videoId]
       IN IF ~IsValidObjectId(videoId)
          THEN CDone(p, r, 400)
          ELSE CGoto(p, r, "findById")
    /\ UNCHANGED <<videos, host, uploads, made, purges>>
    /\ VideoFrame

\* video = await Video.findById(videoId); the requester is not compared with the
\* owner.
togglePublishStatus_findById(p) ==
    /\ creq[p].op = "togglePublishStatus" /\ creq[p].pc = "findById"
    /\ LET r == creq[p]
       IN IF r.id \notin DOMAIN videos
          THEN CDone(p, r, 400)
          ELSE CGoto(p, [r EXCEPT !.doc = videos[r.id]], "write")
    /\ UNCHANGED <<videos, host, uploads, made, purges>>
    /\ VideoFrame

\* Video.findByIdAndUpdate(videoId, {$set: {isPublished: !video.isPublished}}), with
\* the flag as it was read.
togglePublishStatus_update(p) ==
    /\ creq[p].op = "togglePublishStatus" /\ creq[p].pc = "write"
    /\ LET r == creq[p]
       IN IF r.id \in DOMAIN videos
          THEN /\ videos' = [videos EXCEPT ![r.id].isPublished = ~r.doc.isPublished]
               /\ CDone(p, [r EXCEPT !.wrote = TRUE], 201)
          ELSE /\ UNCHANGED videos
               /\ CDone(p, r, 500)
    /\ UNCHANGED <<host, uploads, made, purges>>
    /\ VideoFrame

\* ------------------------------------------- playlists: adding and removing videos

PlaylistVideoFrame ==
    UNCHANGED <<tweets, comments, videos, host, uploads, made, purges>> /\ ContentOnly

\* a && b of JavaScript: a when a is falsy (here: undefined), b otherwise.
JsAnd(a, b) == IF a = Absent THEN a ELSE b

\* (playlist.owner?.toString() && video.owner.toString()) !== req.user?._id.toString()
NotPlaylistOwner(playlistOwner, videoOwner, user) == JsAnd(playlistOwner, videoOwner) # user

\* Both ids must be present and well formed.
PlaylistVideoStart(p, op, user, playlistId, videoId) ==
    /\ CFree(p)
    /\ LET r == [IdleC EXCEPT !.op = op, !.user = user, !.id = playlistId,
                              !.vid = videoId]
       IN IF ~(IsValidObjectId(playlistId) /\ IsValidObjectId(videoId))
          THEN CDone(p, r, 400)
          ELSE CGoto(p, r, "findVideo")
    /\ UNCHANGED playlists
    /\ PlaylistVideoFrame

\* video = await Video.findById(videoId)
PlaylistVideoFindVideo(p) ==
    /\ creq[p].pc = "findVideo"
    /\ LET r == creq[p]
       IN CGoto(p, [r EXCEPT !.doc = IF r.vid \in DOMAIN videos THEN videos[r.vid]
                                      ELSE NoVideo], "findPlaylist")
    /\ UNCHANGED playlists
    /\ PlaylistVideoFrame

\* playlist = await Playlist.findById(playlistId), then the tests: the video and
\* the playlist exist, and the owner comparison.
PlaylistVideoFindPlaylist(p) ==
    /\ creq[p].pc = "findPlaylist"
    /\ LET r == creq[p]
       IN IF r.doc = NoVideo
          THEN CDone(p, r, 400)
          ELSE IF r.id \notin DOMAIN playlists
          THEN CDone(p, r, 400)
          ELSE IF NotPlaylistOwner(playlists[r.id].owner, r.doc.owner, r.user)
          THEN CDone(p, [r EXCEPT !.powner = playlists[r.id].owner], 400)
          ELSE CGoto(p, [r EXCEPT !.powner = playlists[r.id].owner], "write")
    /\ UNCHANGED playlists
    /\ PlaylistVideoFrame

addVideoToPlaylist_start(p, user, playlistId, videoId) ==
    /\ Exercised("playlist")
    /\ PlaylistVideoStart(p, "addVideoToPlaylist", user, playlistId, videoId)

addVideoToPlaylist_findVideo(p) ==
    /\ creq[p].op = "addVideoToPlaylist"
    /\ PlaylistVideoFindVideo(p)

addVideoToPlaylist_findPlaylist(p) ==
    /\ creq[p].op = "addVideoToPlaylist"
    /\ PlaylistVideoFindPlaylist(p)

\* Playlist.findByIdAndUpdate(playlistId, {$addToSet: {videos: videoId}}): null when
\* the playlist is gone.
addVideoToPlaylist_update(p) ==
    /\ creq[p].op = "addVideoToPlaylist" /\ creq[p].pc = "write"
    /\ LET r == creq[p]
       IN IF r.id \in DOMAIN playlists
          THEN /\ playlists' = [playlists EXCEPT ![r.id].videos = @ \cup {r.vid}]
               /\ CDone(p, [r EXCEPT !.wrote = TRUE], 201)
          ELSE /\ UNCHANGED playlists
               /\ CDone(p, r, 500)
    /\ PlaylistVideoFrame

removeVideoFromPlaylist_start(p, user, playlistId, videoId) ==
    /\ Exercised("playlist")
    /\ PlaylistVideoStart(p, "removeVideoFromPlaylist", user, playlistId, videoId)

removeVideoFromPlaylist_findVideo(p) ==
    /\ creq[p].op = "removeVideoFromPlaylist"
    /\ PlaylistVideoFindVideo(p)

removeVideoFromPlaylist_findPlaylist(p) ==
    /\ creq[p].op = "removeVideoFromPlaylist"
    /\ PlaylistVideoFindPlaylist(p)

\* Playlist.findByIdAndDelete(playlistId, {$pull: ...}, {new: true}): the second
\* argument is the options of a delete, so the playlist document itself is deleted;
\* the result is not tested.
removeVideoFromPlaylist_delete(p) ==
    /\ creq[p].op = "removeVideoFromPlaylist" /\ creq[p].pc = "write"
    /\ LET r == creq[p]
       IN IF r.id \in DOMAIN playlists
          THEN /\ playlists' = Remove(playlists, r.id)
               /\ CDone(p, [r EXCEPT !.wrote = TRUE], 201)
          ELSE /\ UNCHANGED playlists
               /\ CDone(p, r, 201)
    /\ PlaylistVideoFrame

InitContent ==
    /\ tweets = <<>>
    /\ comments = <<>>
    /\ playlists = <<>>
    /\ videos = <<>>
    /\ host = {}
    /\ uploads = 0
    /\ creq = [p \in Procs |-> IdleC]
    /\ made = {}
    /\ purges = EmptyBag

\* The owner-guarded mutations of tweets, comments and playlists.
NextOwner ==
    \/ \E p \in Procs, u \in UserIds, c \in CreateTexts \cup {Absent} : createTweet(p, u, c)
    \/ \E p \in Procs, u \in UserIds, id \in KnownIds("tweet"), c \in UpdateTexts :
            updateTweet_start(p, u, id, c)
    \/ \E p \in Procs : updateTweet_findById(p)
    \/ \E p \in Procs : updateTweet_update(p)
    \/ \E p \in Procs, u \in UserIds, id \in KnownIds("tweet") : deleteTweet_start(p, u, id)
    \/ \E p \in Procs : deleteTweet_findById(p)
    \/ \E p \in Procs : deleteTweet_delete(p)
    \/ \E p \in Procs, u \in UserIds, c \in CreateTexts : addComment(p, u, NoSuchDocId, c)
    \/ \E p \in Procs, u \in UserIds, id \in KnownIds("comment"), c \in UpdateTexts :
            updateComment_start(p, u, id, c)
    \/ \E p \in Procs : updateComment_findById(p)
    \/ \E p \in Procs : updateComment_update(p)
    \/ \E p \in Procs, u \in UserIds, id \in KnownIds("comment") :
            deleteComment_start(p, u, id)
    \/ \E p \in Procs : deleteComment_findById(p)
    \/ \E p \in Procs : deleteComment_delete(p)
    \/ \E p \in Procs, u \in UserIds, n \in CreateTexts, d \in CreateTexts \cup {Absent} :
            createPlaylist(p, u, n, d)
    \/ \E p \in Procs, u \in UserIds, id \in KnownIds("playlist"),
          n \in UpdateTexts, d \in UpdateTexts :
            updatePlaylist_start(p, u, id, n, d)
    \/ \E p \in Procs : updatePlaylist_findById(p)
    \/ \E p \in Procs : updatePlaylist_update(p)
    \/ \E p \in Procs, u \in UserIds, id \in KnownIds("playlist") :
            deletePlaylist_start(p, u, id)
    \/ \E p \in Procs : deletePlaylist_findById(p)
    \/ \E p \in Procs : deletePlaylist_delete(p)

\* ------------------------------------------- owner-guarded mutations: the claims

GuardedOps ==
    {"updateTweet", "deleteTweet", "updateComment", "deleteComment",
     "updatePlaylist", "deletePlaylist"}

KindOf(op) ==
    IF op \in {"updateTweet", "deleteTweet"} THEN "tweet"
    ELSE IF op \in {"updateComment", "deleteComment"} THEN "comment"
    ELSE "playlist"

CollectionOf(kind) ==
    IF kind = "tweet" THEN tweets ELSE IF kind = "comment" THEN comments ELSE playlists

\* Request r is one of the six guarded mutations, names a record that was created,
\* and comes from a user who is not the record's owner.
ByNonOwner(r) ==
    /\ r.op \in GuardedOps
    /\ EverMade(KindOf(r.op), r.id)
    /\ OwnerOf(KindOf(r.op), r.id) # r.user

\* C1: a guarded mutation (update or delete of a comment, tweet or playlist) asked
\* by a user other than the record's owner never gets to its write, every step of
\* it leaves all comments, tweets and playlists as they were, and when it is
\* answered the answer is an error.
C1_NonOwnerMutationFails ==
    /\ [](\A p \in Procs : ByNonOwner(creq[p]) =>
            /\ creq[p].pc \in {"findById", "done"}
            /\ creq[p].pc = "done" => creq[p].status >= 400)
    /\ [][\A p \in Procs : (creq'[p] # creq[p] /\ ByNonOwner(creq'[p])) =>
            UNCHANGED <<tweets, comments, playlists>>]_vars

\* An update and a delete of one record by a user who is not its owner were both
\* past validation and were both refused, and the record is there as it was created.
C1_Witness ==
    \E p, q \in Procs, kind \in {"tweet", "comment", "playlist"} :
        /\ ByNonOwner(creq[p]) /\ ByNonOwner(creq[q])
        /\ KindOf(creq[p].op) = kind /\ KindOf(creq[q].op) = kind
        /\ creq[p].op \in {"updateTweet", "updateComment", "updatePlaylist"}
        /\ creq[q].op \in {"deleteTweet", "deleteComment", "deletePlaylist"}
        /\ creq[p].id = creq[q].id
        /\ creq[p].a1 # Absent
        /\ kind = "playlist" => creq[p].a2 # Absent
        /\ creq[p].pc = "done" /\ creq[p].status = 400
        /\ creq[q].pc = "done" /\ creq[q].status = 400
        /\ creq[p].id \in DOMAIN CollectionOf(kind)
        /\ IF kind = "playlist"
           THEN /\ CollectionOf(kind)[creq[p].id].name \in CreateTexts
                /\ CollectionOf(kind)[creq[p].id].description \in CreateTexts
           ELSE CollectionOf(kind)[creq[p].id].content \in CreateTexts

\* The bodies a client sends with a video: title, description and whether the
\* file(s) came along; complete, or with one of the three missing.
VideoBodies(texts) ==
    {<<t, d, TRUE>> : t \in texts, d \in texts}
        \cup {<<Absent, d, TRUE>> : d \in texts}
        \cup {<<t, Absent, TRUE>> : t \in texts}
        \cup {<<t, d, FALSE>> : t \in texts, d \in texts}

\* The video handlers.
NextVideo ==
    \/ \E p \in Procs, u \in UserIds, b \in VideoBodies(CreateTexts) :
            publishAVideo_start(p, u, b[1], b[2], b[3])
    \/ \E p \in Procs : publishAVideo_uploadVideoFile(p)
    \/ \E p \in Procs : publishAVideo_uploadThumbnail(p)
    \/ \E p \in Procs : publishAVideo_create(p)
    \/ \E p \in Procs, u \in UserIds, id \in KnownIds("video"),
          b \in VideoBodies(UpdateTexts \ {Absent}) :
            updateVideo_start(p, u, id, b[1], b[2], b[3])
    \/ \E p \in Procs : updateVideo_findById(p)
    \/ \E p \in Procs : updateVideo_upload(p)
    \/ \E p \in Procs : updateVideo_update(p)
    \/ \E p \in Procs : updateVideo_deleteOld(p)
    \/ \E p \in Procs, u \in UserIds, id \in KnownIds("video") : deleteVideo_start(p, u, id)
    \/ \E p \in Procs : deleteVideo_findById(p)
    \/ \E p \in Procs : deleteVideo_delete(p)
    \/ \E p \in Procs : deleteVideo_purgeVideoFile(p)
    \/ \E p \in Procs : deleteVideo_purgeThumbnail(p)
    \/ \E p \in Procs, u \in UserIds, id \in KnownIds("video") :
            togglePublishStatus_start(p, u, id)
    \/ \E p \in Procs : togglePublishStatus_findById(p)
    \/ \E p \in Procs : togglePublishStatus_update(p)

\* Videos are published and deleted.
NextDelete ==
    \/ \E p \in Procs, u \in UserIds, t \in CreateTexts, d \in CreateTexts :
            publishAVideo_start(p, u, t, d, TRUE)
    \/ \E p \in Procs : publishAVideo_uploadVideoFile(p)
    \/ \E p \in Procs : publishAVideo_uploadThumbnail(p)
    \/ \E p \in Procs : publishAVideo_create(p)
    \/ \E p \in Procs, u \in UserIds, id \in KnownIds("video") : deleteVideo_start(p, u, id)
    \/ \E p \in Procs : deleteVideo_findById(p)
    \/ \E p \in Procs : deleteVideo_delete(p)
    \/ \E p \in Procs : deleteVideo_purgeVideoFile(p)
    \/ \E p \in Procs : deleteVideo_purgeThumbnail(p)

\* A video is published, its thumbnail is replaced and it is deleted.
NextThumbnail ==
    \/ \E u \in UserIds, t \in CreateTexts, d \in CreateTexts :
            publishAVideo_start("p1", u, t, d, TRUE)
    \/ publishAVideo_uploadVideoFile("p1")
    \/ publishAVideo_uploadThumbnail("p1")
    \/ publishAVideo_create("p1")
    \/ \E u \in UserIds, id \in KnownIds("video"), t \in UpdateTexts, file \in BOOLEAN :
            updateVideo_start("p1", u, id, t, "b", file)
    \/ updateVideo_findById("p1")
    \/ updateVideo_upload("p1")
    \/ updateVideo_update("p1")
    \/ updateVideo_deleteOld("p1")
    \/ \E u \in UserIds, id \in KnownIds("video") : deleteVideo_start("p2", u, id)
    \/ deleteVideo_findById("p2")
    \/ deleteVideo_delete("p2")
    \/ deleteVideo_purgeVideoFile("p2")
    \/ deleteVideo_purgeThumbnail("p2")

\* The publish flag of a video is toggled; each request slot carries one toggle.
NextToggle ==
    \/ \E p \in Procs, u \in UserIds, id \in KnownIds("video") :
            creq[p].pc = "idle" /\ togglePublishStatus_start(p, u, id)
    \/ \E p \in Procs : togglePublishStatus_findById(p)
    \/ \E p \in Procs : togglePublishStatus_update(p)

\* ------------------------------------------------------- videos: the claims

VideoOps == {"updateVideo", "deleteVideo", "togglePublishStatus"}

\* C2: a request to update, delete or toggle a video that comes from a user other
\* than the video's owner changes neither the video nor the media host, and when
\* it is answered the answer is 403 Forbidden.
C2_NonOwnerVideoMutationForbidden ==
    \A p \in Procs :
        (/\ creq[p].op \in VideoOps
         /\ EverMade("video", creq[p].id)
         /\ OwnerOf("video", creq[p].id) # creq[p].user)
        => /\ ~creq[p].wrote
           /\ creq[p].pc = "done" => creq[p].status = 403

\* C14: no asset is asked to be deleted twice, however deleteVideo requests
\* interleave; a deleteVideo that deleted the video answers 201; and when it
\* answers, the media host has been asked once to delete the primary asset and once
\* to delete the thumbnail of the video, whether or not it failed on either.
C14_EachAssetDeletedOnce ==
    /\ [](\A asset \in BagToSet(purges) : CopiesIn(asset, purges) = 1)
    /\ [](\A p \in Procs :
            (creq[p].op = "deleteVideo" /\ creq[p].pc = "done" /\ creq[p].wrote)
                => creq[p].status = 201)
    /\ [][\A p \in Procs :
            (creq[p].op = "deleteVideo" /\ creq[p].pc = "purgeThumbnail"
                /\ creq'[p].pc = "done")
            => /\ CopiesIn(creq[p].doc.videoFile, purges') = 1
               /\ CopiesIn(creq[p].doc.thumbnail, purges') = 1]_vars

\* One deleteVideo deleted the video and has answered: the media host was asked to
\* delete both assets, failed on one of them (it is still there) and deleted the
\* other; a second deleteVideo of the same video has answered 500.
C14_Witness ==
    \E p, q \in Procs :
        /\ creq[p].op = "deleteVideo" /\ creq[p].pc = "done" /\ creq[p].wrote
        /\ Cardinality(BagToSet(purges)) = 2
        /\ Cardinality(BagToSet(purges) \cap host) = 1
        /\ creq[q].op = "deleteVideo" /\ creq[q].pc = "done" /\ creq[q].id = creq[p].id
        /\ creq[q].status = 500

\* Playlists and the videos put into them. A playlist id that is sent is malformed
\* or the id of a playlist that was created (and may be deleted by now); a video id
\* that is sent is the id of a video or of none.
NextPlaylist ==
    \/ \E p \in Procs, u \in UserIds, n \in CreateTexts, d \in CreateTexts \cup {Absent} :
            createPlaylist(p, u, n, d)
    \/ \E p \in Procs, u \in UserIds, t \in CreateTexts, d \in CreateTexts :
            publishAVideo_start(p, u, t, d, TRUE)
    \/ \E p \in Procs : publishAVideo_uploadVideoFile(p)
    \/ \E p \in Procs : publishAVideo_uploadThumbnail(p)
    \/ \E p \in Procs : publishAVideo_create(p)
    \/ \E p \in Procs, u \in UserIds, pl \in KnownIds("playlist") \ {NoSuchDocId},
          v \in KnownIds("video") \ {BadDocId} :
            addVideoToPlaylist_start(p, u, pl, v)
    \/ \E p \in Procs : addVideoToPlaylist_findVideo(p)
    \/ \E p \in Procs : addVideoToPlaylist_findPlaylist(p)
    \/ \E p \in Procs : addVideoToPlaylist_update(p)
    \/ \E p \in Procs, u \in UserIds, pl \in KnownIds("playlist") \ {NoSuchDocId},
          v \in KnownIds("video") \ {BadDocId} :
            removeVideoFromPlaylist_start(p, u, pl, v)
    \/ \E p \in Procs : removeVideoFromPlaylist_findVideo(p)
    \/ \E p \in Procs : removeVideoFromPlaylist_findPlaylist(p)
    \/ \E p \in Procs : removeVideoFromPlaylist_delete(p)

\* ------------------------------ playlists, adding and removing: the claims

PlaylistVideoOps == {"addVideoToPlaylist", "removeVideoFromPlaylist"}

\* C3: a request to add a video to a playlist or to remove one from it, made by a
\* user who is not the playlist's owner, never passes the ownership test, changes
\* no playlist and is answered with an error, whoever owns the video; and a request
\* passes the test only when the requester owns both the playlist and the video.
C3_PlaylistChangedOnlyByOwner ==
    \A p \in Procs :
        LET r == creq[p] IN
        (r.op \in PlaylistVideoOps /\ EverMade("playlist", r.id)) =>
            /\ OwnerOf("playlist", r.id) # r.user =>
                  /\ r.pc # "write"
                  /\ ~r.wrote
                  /\ r.pc = "done" => r.status >= 400
            /\ (r.pc = "write" \/ r.wrote) =>
                  /\ OwnerOf("playlist", r.id) = r.user
                  /\ EverMade("video", r.vid) /\ OwnerOf("video", r.vid) = r.user

\* C26: removing a video from a playlist (and adding one) leaves the playlist in
\* place: where playlists are created and videos are added to them and removed
\* from them, every playlist that was created exists, with the name and the owner
\* it was created with, and a removeVideoFromPlaylist that is answered 201 has
\* left its playlist there.
C26_RemoveKeepsThePlaylist ==
    /\ \A x \in made :
        x[1] = "playlist" =>
            /\ x[2] \in DOMAIN playlists
            /\ playlists[x[2]].owner = x[3]
            /\ playlists[x[2]].name \in CreateTexts
    /\ \A p \in Procs :
        (creq[p].op = "removeVideoFromPlaylist" /\ creq[p].pc = "done" /\
         creq[p].status = 201) => creq[p].id \in DOMAIN playlists

\* ------------------------------------------------ accounts: store and helpers

\* Ids given to the User documents that registerUser creates, in order.
NewUserIds == <<"u3", "u4", "u5">>

\* A text of white space only, and a text with no "@" in it.
Blank == "  "
Malformed == "bad"

\* field.trim()
Trim(text) == IF text = Blank THEN "" ELSE text

\* username.toLowerCase(): "N1" is the handle "n1" in other letter case.
ToLowerCase(text) == IF text = "N1" THEN "n1" ELSE text

\* email.includes("@"), of the texts the model sends as email.
IncludesAt(email) == email \notin {Blank, "", Malformed}

\* field?.trim() === "": false for a field that is missing (undefined).
BlankField(field) == field # Absent /\ Trim(field) = ""

\* What multer leaves in req.files: undefined (no multipart body), an object with
\* no avtar entry, the avtar file, or the avtar and the coverImage files.
FileShapes == {"none", "empty", "avtar", "both"}

\* A slot of an account request: the handler (op), its position (pc), the requester
\* (user), the body it was sent (fullName, username, email, password, newPassword,
\* files), the uploads it got back (avtar, cover), the credential and the image of
\* the User document it read (stored, old), the User it created (made), the
\* assets it put on the media host (ups), whether it wrote a User (wrote), the HTTP
\* status it answered and the shape of the body it answered with.
IdleU ==
    [op |-> "none", pc |-> "idle", user |-> "none", fullName |-> Absent,
     username |-> Absent, email |-> Absent, password |-> Absent,
     newPassword |-> Absent, files |-> "none", avtar |-> NoAsset, cover |-> NoAsset,
     stored |-> Absent, old |-> NoAsset, made |-> "none", ups |-> 0, wrote |-> FALSE,
     status |-> 0, body |-> "none"]

UFree(p) == ureq[p].pc \in {"idle", "done"}

\* throw new ApiError(status, ...): the error envelope.
UFail(p, r, status) ==
    ureq' = [ureq EXCEPT ![p] = [r EXCEPT !.pc = "done", !.status = status,
                                        !.body = "ApiError"]]

UGoto(p, r, pc) == ureq' = [ureq EXCEPT ![p] = [r EXCEPT !.pc = pc]]

\* What an account step leaves alone of the session state, and of the rest.
AccountFrame ==
    /\ UNCHANGED <<issued, expiredUpTo, authed, areq, consumed, lastWriter, sinceLogout,
                   lastDone>>
    /\ UNCHANGED <<likeVars, tweets, comments, playlists, videos, creq, made, purges>>
    /\ UNCHANGED viewVars

\* User.findOne({$or: [{username}, {email}]}) of registerUser: the username is
\* compared as it was sent.
ExistedUser(us, username, email) ==
    {u \in DOMAIN us : us[u].username = username \/ us[u].email = email}

\* User documents created by registerUser so far.
Registered == DOMAIN users \ UserIds

\* User.create(doc) refuses a document without a required field (fullName,
\* password); nothing else of a document is tested when it is inserted.
CreateRefuses(doc) == doc.fullName = Absent \/ doc.password = Absent

\* registerUser requests between their validation and their User.create.
Registering ==
    Cardinality({q \in Procs : ureq[q].op = "registerUser"
                                /\ ureq[q].pc \notin {"idle", "done"}})

\* ------------------------------------------------------------- registerUser

\* The body is destructured and validated; then User.findOne is awaited.
\* email.includes of a missing email is a TypeError (answered 500).
registerUser_start(p, fullName, username, email, password, files) ==
    /\ UFree(p)
    /\ Cardinality(Registered) + Registering < MaxRegistrations
    /\ LET r == [IdleU EXCEPT !.op = "registerUser", !.fullName = fullName,
                              !.username = username, !.email = email,
                              !.password = password, !.files = files]
       IN IF \E field \in {fullName, username, email, password} : BlankField(field)
          THEN UFail(p, r, 400)
          ELSE IF email = Absent
          THEN UFail(p, r, 500)
          ELSE IF ~IncludesAt(email)
          THEN UFail(p, r, 400)
          ELSE UGoto(p, r, "findOne")
    /\ UNCHANGED <<users, host, uploads>>
    /\ AccountFrame

\* existedUser is tested, then req.files?.avtar[0]?.path is read: a TypeError
\* (answered 500) when req.files has no avtar entry, undefined when there is no
\* req.files.
registerUser_findOne(p) ==
    /\ ureq[p].op = "registerUser" /\ ureq[p].pc = "findOne"
    /\ LET r == ureq[p]
       IN IF ExistedUser(users, r.username, r.email) # {}
          THEN UFail(p, r, 409)
          ELSE IF r.files = "empty"
          THEN UFail(p, r, 500)
          ELSE IF r.files = "none"
          THEN UFail(p, r, 400)
          ELSE UGoto(p, r, "uploadAvtar")
    /\ UNCHANGED <<users, host, uploads>>
    /\ AccountFrame

\* avtar = await uploadOnCloudinary(avtarLocalPath)
registerUser_uploadAvtar(p) ==
    /\ ureq[p].op = "registerUser" /\ ureq[p].pc = "uploadAvtar"
    /\ uploads < MaxUploads
    /\ \E url \in UploadOutcomes(uploads) :
        /\ uploads' = IF url = NoAsset THEN uploads ELSE url
        /\ host' = IF url = NoAsset THEN host ELSE host \cup {url}
        /\ UGoto(p, [ureq[p] EXCEPT !.avtar = url,
                                    !.ups = IF url = NoAsset THEN @ ELSE @ + 1],
                 "uploadCover")
    /\ UNCHANGED users
    /\ AccountFrame

\* coverImage = await uploadOnCloudinary(coverImageLocalPath), which gives null for
\* no path; only then is the avtar upload tested.
registerUser_uploadCover(p) ==
    /\ ureq[p].op = "registerUser" /\ ureq[p].pc = "uploadCover"
    /\ LET r == ureq[p]
           next(q) == IF q.avtar = NoAsset THEN UFail(p, q, 400) ELSE UGoto(p, q, "create")
       IN IF r.files = "both"
          THEN /\ uploads < MaxUploads
               /\ \E url \in UploadOutcomes(uploads) :
                    /\ uploads' = IF url = NoAsset THEN uploads ELSE url
                    /\ host' = IF url = NoAsset THEN host ELSE host \cup {url}
                    /\ next([r EXCEPT !.cover = url,
                                      !.ups = IF url = NoAsset THEN @ ELSE @ + 1])
          ELSE /\ UNCHANGED <<host, uploads>>
               /\ next(r)
    /\ UNCHANGED users
    /\ AccountFrame

\* User.create({fullName, username: username.toLowerCase(), email, password, ...}):
\* toLowerCase of a missing username is a TypeError (answered 500).
registerUser_create(p) ==
    /\ ureq[p].op = "registerUser" /\ ureq[p].pc = "create"
    /\ LET r == ureq[p]
           id == NewUserIds[Cardinality(Registered) + 1]
           doc == [username |-> ToLowerCase(r.username), email |-> r.email,
                   password |-> r.password, refreshToken |-> NoToken,
                   fullName |-> r.fullName, avtar |-> r.avtar, coverImage |-> r.cover]
       IN IF r.username = Absent \/ CreateRefuses(doc)
          THEN /\ UNCHANGED users
               /\ UFail(p, r, 500)
          ELSE /\ users' = Insert(users, id, doc)
               /\ UGoto(p, [r EXCEPT !.made = id, !.wrote = TRUE], "findById")
    /\ UNCHANGED <<host, uploads>>
    /\ AccountFrame

\* createdUser = await User.findById(user._id); res.status(201).json(new
\* ApiResponse(200, createdUser, "Success")).
registerUser_respond(p) ==
    /\ ureq[p].op = "registerUser" /\ ureq[p].pc = "findById"
    /\ LET r == ureq[p]
       IN IF r.made \notin DOMAIN users
          THEN UFail(p, r, 500)
          ELSE ureq' = [ureq EXCEPT ![p] = [r EXCEPT !.pc = "done", !.status = 201,
                                                     !.body = "ApiResponse"]]
    /\ UNCHANGED <<users, host, uploads>>
    /\ AccountFrame

\* ----------------------------------------------------- updateAccountDetails

\* if (!fullName || !email): a missing or empty text is falsy.
Falsy(text) == text \in {Absent, ""}

updateAccountDetails_start(p, user, fullName, email) ==
    /\ UFree(p)
    /\ LET r == [IdleU EXCEPT !.op = "updateAccountDetails", !.user = user,
                              !.fullName = fullName, !.email = email]
       IN IF Falsy(fullName) \/ Falsy(email)
          THEN UFail(p, r, 400)
          ELSE UGoto(p, r, "update")
    /\ UNCHANGED <<users, host, uploads>>
    /\ AccountFrame

\* User.findByIdAndUpdate(req.user._id, {$set: {fullName, email}}); then
\* res.status(201).json(200, user, "Account updated successfully"): json sends its
\* first argument, the number 200.
updateAccountDetails_update(p) ==
    /\ ureq[p].op = "updateAccountDetails" /\ ureq[p].pc = "update"
    /\ LET r == ureq[p]
       IN /\ users' = [users EXCEPT ![r.user].fullName = r.fullName,
                                    ![r.user].email = r.email]
          /\ ureq' = [ureq EXCEPT ![p] = [r EXCEPT !.pc = "done", !.status = 201,
                                                   !.wrote = TRUE, !.body = "number"]]
    /\ UNCHANGED <<host, uploads>>
    /\ AccountFrame

\* ----------------------------------------------------- changeCurrentPassword

\* The request is taken (password is the oldPassword of the body) and
\* User.findById(req.user._id) is awaited.
changeCurrentPassword_start(p, user, oldPassword, newPassword) ==
    /\ UFree(p)
    /\ UGoto(p, [IdleU EXCEPT !.op = "changeCurrentPassword", !.user = user,
                              !.password = oldPassword, !.newPassword = newPassword],
             "findById")
    /\ UNCHANGED <<users, host, uploads>>
    /\ AccountFrame

\* findById resolves with the User document; user.isPasswordCorrect(oldPassword)
\* is awaited on that document.
changeCurrentPassword_findById(p) ==
    /\ ureq[p].op = "changeCurrentPassword" /\ ureq[p].pc = "findById"
    /\ UGoto(p, [ureq[p] EXCEPT !.stored = users[ureq[p].user].password],
             "isPasswordCorrect")
    /\ UNCHANGED <<users, host, uploads>>
    /\ AccountFrame

\* Fault variant: the comparison of the old password left out.
WrongOldPasswordNever(stored, oldPassword) == FALSE

\* if (!isPasswordCorrect): the old password is not the one of the document read.
WrongOldPassword(stored, oldPassword) ==
    ~isPasswordCorrect([password |-> stored], oldPassword)

\* The comparison resolves: 400 "Invalid password", or user.password = newPassword
\* and user.save() is awaited.
changeCurrentPassword_isPasswordCorrect(p) ==
    /\ ureq[p].op = "changeCurrentPassword" /\ ureq[p].pc = "isPasswordCorrect"
    /\ LET r == ureq[p]
       IN IF WrongOldPassword(r.stored, r.password)
          THEN UFail(p, r, 400)
          ELSE UGoto(p, r, "save")
    /\ UNCHANGED <<users, host, uploads>>
    /\ AccountFrame

\* user.save({validateBeforeSave: false}) writes the path that was modified, the
\* password; then 201 with the envelope.
changeCurrentPassword_save(p) ==
    /\ ureq[p].op = "changeCurrentPassword" /\ ureq[p].pc = "save"
    /\ LET r == ureq[p]
       IN /\ users' = [users EXCEPT ![r.user].password = r.newPassword]
          /\ ureq' = [ureq EXCEPT ![p] = [r EXCEPT !.pc = "done", !.status = 201,
                                                   !.wrote = TRUE, !.body = "ApiResponse"]]
    /\ UNCHANGED <<host, uploads>>
    /\ AccountFrame

\* ------------------------------------------- updateUserAvtar, updateUserCoverImage
\*
\* The two handlers are one text but for the field (avtar, coverImage) they write.

\* if (!req.file?.path) throw new ApiError(400, ...); uploadOnCloudinary is awaited.
UpdateImageStart(p, op, user, file) ==
    /\ UFree(p)
    /\ LET r == [IdleU EXCEPT !.op = op, !.user = user,
                              !.files = IF file THEN "avtar" ELSE "none"]
       IN IF ~file THEN UFail(p, r, 400) ELSE UGoto(p, r, "upload")
    /\ UNCHANGED <<users, host, uploads>>
    /\ AccountFrame

\* The upload resolves: image.url of a failed upload (null) is a TypeError,
\* answered 500; User.findById is awaited.
UpdateImageUpload(p) ==
    /\ ureq[p].pc = "upload"
    /\ uploads < MaxUploads
    /\ \E url \in UploadOutcomes(uploads) :
        /\ uploads' = IF url = NoAsset THEN uploads ELSE url
        /\ host' = IF url = NoAsset THEN host ELSE host \cup {url}
        /\ LET r == [ureq[p] EXCEPT !.avtar = url,
                                    !.ups = IF url = NoAsset THEN @ ELSE @ + 1]
           IN IF url = NoAsset THEN UFail(p, r, 500) ELSE UGoto(p, r, "findById")
    /\ UNCHANGED users
    /\ AccountFrame

\* user = await User.findById(req.user.id).select(field): the image there is now.
UpdateImageFindById(p, field) ==
    /\ ureq[p].pc = "findById"
    /\ UGoto(p, [ureq[p] EXCEPT !.old = users[ureq[p].user][field]], "update")
    /\ UNCHANGED <<users, host, uploads>>
    /\ AccountFrame

\* User.findByIdAndUpdate(req.user._id, {$set: {[field]: image.url}})
UpdateImageUpdate(p, field) ==
    /\ ureq[p].pc = "update"
    /\ users' = [users EXCEPT ![ureq[p].user][field] = ureq[p].avtar]
    /\ UGoto(p, [ureq[p] EXCEPT !.wrote = TRUE], "deleteOld")
    /\ UNCHANGED <<host, uploads>>
    /\ AccountFrame

\* if (user[field]) await deleteFromCloudinary(publicId); then
\* res.status(201).json(200, {user: updateUser}, "..."): json sends its first
\* argument, the number 200.
UpdateImageDeleteOld(p) ==
    /\ ureq[p].pc = "deleteOld"
    /\ LET r == ureq[p]
       IN /\ IF r.old # NoAsset
             THEN \E outcome \in PurgeOutcomes :
                    host' = IF outcome = "deleted" THEN Purge(host, r.old) ELSE host
             ELSE UNCHANGED host
          /\ ureq' = [ureq EXCEPT ![p] = [r EXCEPT !.pc = "done", !.status = 201,
                                                   !.body = "number"]]
    /\ UNCHANGED <<users, uploads>>
    /\ AccountFrame

updateUserAvtar_start(p, user, file) == UpdateImageStart(p, "updateUserAvtar", user, file)
updateUserAvtar_upload(p) == ureq[p].op = "updateUserAvtar" /\ UpdateImageUpload(p)
updateUserAvtar_findById(p) ==
    ureq[p].op = "updateUserAvtar" /\ UpdateImageFindById(p, "avtar")
updateUserAvtar_update(p) == ureq[p].op = "updateUserAvtar" /\ UpdateImageUpdate(p, "avtar")
updateUserAvtar_deleteOld(p) == ureq[p].op = "updateUserAvtar" /\ UpdateImageDeleteOld(p)

updateUserCoverImage_start(p, user, file) ==
    UpdateImageStart(p, "updateUserCoverImage", user, file)
updateUserCoverImage_upload(p) ==
    ureq[p].op = "updateUserCoverImage" /\ UpdateImageUpload(p)
updateUserCoverImage_findById(p) ==
    ureq[p].op = "updateUserCoverImage" /\ UpdateImageFindById(p, "coverImage")
updateUserCoverImage_update(p) ==
    ureq[p].op = "updateUserCoverImage" /\ UpdateImageUpdate(p, "coverImage")
updateUserCoverImage_deleteOld(p) ==
    ureq[p].op = "updateUserCoverImage" /\ UpdateImageDeleteOld(p)

\* ------------------------------------------------ accounts: next-state relations

\* The registrations a client sends: a complete one with a new handle and email,
\* and that one with one thing changed (a taken handle, the taken handle in other
\* letter case, a taken or malformed email, a blank or missing field, other files).
GoodRegistration == <<"f3", "n3", "e3", "pwC", "both">>

RegisterBodies ==
    {GoodRegistration}
        \cup {[GoodRegistration EXCEPT ![2] = n] : n \in {"n1", "N1"}}
        \cup {[GoodRegistration EXCEPT ![3] = e] : e \in {"e1", Malformed}}
        \cup {[GoodRegistration EXCEPT ![i] = Blank] : i \in 1..4}
        \cup {[GoodRegistration EXCEPT ![i] = Absent] : i \in 1..4}
        \cup {[GoodRegistration EXCEPT ![5] = f] : f \in FileShapes}

NextRegister ==
    \/ \E p \in Procs, b \in RegisterBodies :
            registerUser_start(p, b[1], b[2], b[3], b[4], b[5])
    \/ \E p \in Procs : registerUser_findOne(p)
    \/ \E p \in Procs : registerUser_uploadAvtar(p)
    \/ \E p \in Procs : registerUser_uploadCover(p)
    \/ \E p \in Procs : registerUser_create(p)
    \/ \E p \in Procs : registerUser_respond(p)

\* Registrations and updates of the account details of the registered users.
NextAccount ==
    \/ \E p \in Procs, b \in {GoodRegistration, [GoodRegistration EXCEPT ![2] = "N1"]} :
            registerUser_start(p, b[1], b[2], b[3], b[4], "avtar")
    \/ \E p \in Procs : registerUser_findOne(p)
    \/ \E p \in Procs : registerUser_uploadAvtar(p)
    \/ \E p \in Procs : registerUser_uploadCover(p)
    \/ \E p \in Procs : registerUser_create(p)
    \/ \E p \in Procs : registerUser_respond(p)
    \/ \E p \in Procs, u \in UserIds, f \in {"g", Absent}, e \in {"e1", "e9", ""} :
            updateAccountDetails_start(p, u, f, e)
    \/ \E p \in Procs : updateAccountDetails_update(p)

\* Changes of the password of a registered user, and logins with the old and the
\* new password.
ChangedPasswords == {"pwA", "pwN"}

NextPassword ==
    \/ \E p \in Procs, old \in ChangedPasswords, new \in ChangedPasswords :
            changeCurrentPassword_start(p, "u1", old, new)
    \/ \E p \in Procs : changeCurrentPassword_findById(p)
    \/ \E p \in Procs : changeCurrentPassword_isPasswordCorrect(p)
    \/ \E p \in Procs : changeCurrentPassword_save(p)
    \/ \E p \in Procs, password \in ChangedPasswords :
            loginUser_start(p, "n1", Absent, password)
    \/ \E p \in Procs : loginUser_findOne(p)
    \/ \E p \in Procs :
            Cardinality(issued) < MaxTokens /\ generateAccessAndRefreshTokens(p)
    \/ \E p \in Procs : loginUser_respond(p)

\* The handlers of a user that answer a success, and the toggle of a video like,
\* one request of each family at a time.
NextEnvelope ==
    \/ \E e \in {"e9", ""} : updateAccountDetails_start("p1", "u1", "g", e)
    \/ updateAccountDetails_update("p1")
    \/ \E file \in BOOLEAN : updateUserAvtar_start("p1", "u1", file)
    \/ updateUserAvtar_upload("p1")
    \/ updateUserAvtar_findById("p1")
    \/ updateUserAvtar_update("p1")
    \/ updateUserAvtar_deleteOld("p1")
    \/ \E file \in BOOLEAN : updateUserCoverImage_start("p1", "u1", file)
    \/ updateUserCoverImage_upload("p1")
    \/ updateUserCoverImage_findById("p1")
    \/ updateUserCoverImage_update("p1")
    \/ updateUserCoverImage_deleteOld("p1")
    \/ \E old \in ChangedPasswords : changeCurrentPassword_start("p1", "u1", old, "pwN")
    \/ changeCurrentPassword_findById("p1")
    \/ changeCurrentPassword_isPasswordCorrect("p1")
    \/ changeCurrentPassword_save("p1")
    \/ \E id \in VideoIds \cup {BadId} : toggleVideoLike_start("p1", "u1", id)
    \/ toggleVideoLike_findOne("p1")
    \/ toggleVideoLike_delete("p1")
    \/ toggleVideoLike_create("p1")

\* ----------------------------------------------------- accounts: the claims

IsRegister(r) == r.op = "registerUser" /\ r.pc = "done"

\* A required field of the registration is blank or missing, or the email is
\* malformed.
C11_BadFields(r) ==
    \/ \E field \in {r.fullName, r.username, r.email, r.password} :
            field = Absent \/ Trim(field) = ""
    \/ ~IncludesAt(r.email)

\* C11: registerUser answers 400 when a required field is blank or missing or the
\* email is malformed, 400 when the avtar file is not there (unless it answers 409),
\* and 409 only when a User has the handle or the email; a registration that
\* fails has created no User and uploaded no asset, and one that succeeds has
\* created one User.
C11_RegisterContract ==
    \A p \in Procs :
        LET r == ureq[p] IN
        IsRegister(r) =>
            /\ C11_BadFields(r) => r.status = 400
            /\ (~C11_BadFields(r) /\ r.files \in {"none", "empty"})
                    => r.status \in {400, 409}
            /\ r.status = 409 => ExistedUser(users, r.username, r.email) # {}
            /\ r.status >= 400 => (~r.wrote /\ r.ups = 0)
            /\ r.status < 400 => (r.wrote /\ r.made \in DOMAIN users)

\* C12: no two User documents have the same handle, and no two the same email.
C12_HandleAndEmailUnique ==
    \A u, v \in DOMAIN users :
        u # v => (users[u].username # users[v].username /\ users[u].email # users[v].email)

IsChangePassword(r) == r.op = "changeCurrentPassword" /\ r.pc = "done"

\* C13: changeCurrentPassword with an old password that is not the stored one (as
\* the handler read it) answers 400 and writes nothing; with the stored one it
\* answers 201 and the step that saves leaves newPassword as the stored
\* credential; and a login that finds the user is refused with 401 exactly when
\* the password it sends is not the stored one, so after a change it succeeds
\* with the new password and fails with the old one.
C13_ChangePasswordContract ==
    /\ [](\A p \in Procs :
            LET r == ureq[p] IN
            IsChangePassword(r) =>
                /\ r.password # r.stored => (r.status = 400 /\ ~r.wrote)
                /\ r.password = r.stored => (r.status = 201 /\ r.wrote))
    /\ [][\A p \in Procs :
            /\ (ureq[p].op = "changeCurrentPassword" /\ ureq'[p] # ureq[p]
                    /\ ureq'[p].status = 400)
                    => users' = users
            /\ (ureq[p].op = "changeCurrentPassword" /\ ureq[p].pc = "save"
                    /\ ureq'[p] # ureq[p])
                    => users'[ureq[p].user].password = ureq[p].newPassword
            /\ (areq[p].op = "login" /\ areq[p].pc = "findOne" /\ areq'[p] # areq[p]
                    /\ areq'[p].status # 404)
                    => (areq'[p].status = 401
                            <=> areq[p].password # users[areq'[p].uid].password)]_vars

\* A password was changed to "pwN", a login with "pwN" has succeeded and a login
\* with the old password "pwA" was refused.
C13_Witness ==
    /\ users["u1"].password = "pwN"
    /\ \E p \in Procs :
            /\ IsChangePassword(ureq[p]) /\ ureq[p].status = 201
            /\ ureq[p].password = "pwA" /\ ureq[p].newPassword = "pwN"
    /\ \E p, q \in Procs :
            /\ IsLogin(areq[p]) /\ areq[p].pc = "done" /\ areq[p].status = 200
            /\ areq[p].password = "pwN"
            /\ IsLogin(areq[q]) /\ areq[q].pc = "done" /\ areq[q].status = 401
            /\ areq[q].password = "pwA"

\* ------------------------------------------------------------------ views
\*
\* The list handlers: an aggregation pipeline gives the result set, and
\* Model.aggregatePaginate gives the page of it that is answered.

Min(a, b) == IF a < b THEN a ELSE b
Max(a, b) == IF a > b THEN a ELSE b

\* The paginated result before anything was paginated.
NoPage == [docs |-> <<>>, totalDocs |-> 0, page |-> 0, limit |-> 0]

\* The slot of a list request: the handler (view), its position (pc), the page and
\* limit of the query string, the video collection the pipeline runs on (store),
\* the userId, query, sortBy and sortType of the query string, the username of the
\* path and the requester (viewer), the videoId and the playlistId of the path, the
\* result set of the pipeline (result), the
\* paginated result (data) and the HTTP status answered.
IdleV ==
    [view |-> "none", pc |-> "idle", page |-> 0, limit |-> 0, store |-> {},
     userId |-> Absent, query |-> <<>>, sortBy |-> Absent, sortType |-> Absent,
     username |-> Absent, viewer |-> Absent, videoId |-> Absent,
     playlistId |-> Absent, result |-> <<>>, data |-> NoPage, status |-> 0]

\* What a list step leaves alone.
ViewOnly == UNCHANGED <<authVars, likeVars, contentVars, accountVars>>

VFree == vreq.pc \in {"idle", "done"}

\* Model.aggregatePaginate(aggregate, {page, limit}): the records after the first
\* (page - 1) * limit, limit of them at most, and the count of all.
aggregatePaginate(result, page, limit) ==
    LET skip == (page - 1) * limit
    IN [docs |-> IF skip >= Len(result) THEN <<>>
                 ELSE SubSeq(result, skip + 1, Min(skip + limit, Len(result))),
        totalDocs |-> Len(result), page |-> page, limit |-> limit]

VAnswer(r, status, data) ==
    vreq' = [r EXCEPT !.pc = "done", !.status = status, !.data = data]

\* A handler that does not paginate answers with the records themselves.
Listed(records) == [NoPage EXCEPT !.docs = records, !.totalDocs = Len(records)]

\* getVideoComments: the page is answered as it is (an array is never falsy, nor
\* is the paginated result).
getVideoComments_aggregatePaginate ==
    /\ vreq.view = "getVideoComments" /\ vreq.pc = "paginate"
    /\ VAnswer(vreq, 201, aggregatePaginate(vreq.result, vreq.page, vreq.limit))
    /\ ViewOnly

\* getAllVideos: if (!video || video.totalDocs === 0) throw new ApiError(500, ...).
getAllVideos_aggregatePaginate ==
    /\ vreq.view = "getAllVideos" /\ vreq.pc = "paginate"
    /\ LET video == aggregatePaginate(vreq.result, vreq.page, vreq.limit)
       IN IF video.totalDocs = 0
          THEN VAnswer(vreq, 500, NoPage)
          ELSE VAnswer(vreq, 201, video)
    /\ ViewOnly

\* The handlers that paginate, each with its pipeline resolved to a result set of
\* up to MaxRecords records (a record is its position in the result set).
PaginatedViews == {"getVideoComments", "getAllVideos"}

PageRequests ==
    {[IdleV EXCEPT !.view = view, !.pc = "paginate", !.page = page, !.limit = limit,
                   !.result = [i \in 1..n |-> i]] :
        view \in PaginatedViews, n \in 0..MaxRecords, page \in 1..MaxPage,
        limit \in 1..MaxLimit}

NextPage ==
    \/ getVideoComments_aggregatePaginate
    \/ getAllVideos_aggregatePaginate

\* ---------------------------------------------------- getAllVideos: the pipeline
\*
\* A text is the sequence of its characters.

\* {title: {$regex: query}}: the pattern query matches title somewhere; in a
\* pattern the character "." stands for any character.
RegexAt(pattern, text, pos) ==
    /\ pos + Len(pattern) - 1 <= Len(text)
    /\ \A i \in 1..Len(pattern) : pattern[i] = "." \/ pattern[i] = text[pos + i - 1]

Regex(pattern, text) == \E pos \in 1..(Len(text) + 1) : RegexAt(pattern, text, pos)

\* $match: {$or: [{owner: userId}, {title: {$regex: query}}]}
Match(store, userId, query) ==
    {v \in store : v.owner = userId \/ Regex(query, v.title)}

\* $lookup of the owner in users and $unwind: "$ownerDetails": a video whose owner
\* is no user drops out.
Unwind(matched, us) == {v \in matched : v.owner \in DOMAIN us}

\* $sort: {[sortBy ? sortBy : "createdAt"]: sortType === "asc" ? 1 : -1}
SortField(sortBy) == IF sortBy = Absent THEN "createdAt" ELSE sortBy
SortOrder(sortType) == IF sortType = "asc" THEN 1 ELSE -1

SortKey(v, field) == IF field = "views" THEN v.views ELSE v.createdAt

\* The sequences that hold each of records once, in the order of the sort.
Sorted(records, field, order) ==
    {seq \in [1..Cardinality(records) -> records] :
        /\ \A i, j \in DOMAIN seq : i # j => seq[i] # seq[j]
        /\ \A i, j \in DOMAIN seq :
                i < j => order * SortKey(seq[i], field) <= order * SortKey(seq[j], field)}

\* Video.aggregate([...]) resolves; Video.aggregatePaginate is awaited.
getAllVideos_aggregate ==
    /\ vreq.view = "getAllVideos" /\ vreq.pc = "aggregate"
    /\ \E seq \in Sorted(Unwind(Match(vreq.store, vreq.userId, vreq.query), users),
                          SortField(vreq.sortBy), SortOrder(vreq.sortType)) :
            vreq' = [vreq EXCEPT !.pc = "paginate", !.result = seq]
    /\ ViewOnly

\* The videos there may be: owner, title, creation time and views.
VideoPool ==
    {[id |-> 1, owner |-> "u1", title |-> <<"a", "b">>, createdAt |-> 1, views |-> 2],
     [id |-> 2, owner |-> "u2", title |-> <<"b">>, createdAt |-> 2, views |-> 1],
     [id |-> 3, owner |-> "u2", title |-> <<"a">>, createdAt |-> 3, views |-> 1]}

\* The query strings a client sends.
Queries == {<<"a">>, <<"b", "a">>, <<"a", "b">>, <<".">>}

\* getAllVideos with page = 1 and limit = 10 by default, on every video
\* collection, for every scoping user, query and sort.
FeedRequests ==
    {[IdleV EXCEPT !.view = "getAllVideos", !.pc = "aggregate", !.page = 1, !.limit = 10,
                   !.store = store, !.userId = userId, !.query = query,
                   !.sortBy = sortBy, !.sortType = sortType] :
        store \in SUBSET VideoPool, userId \in UserIds, query \in Queries,
        sortBy \in {Absent, "createdAt", "views"}, sortType \in {Absent, "asc", "desc"}}

NextFeed ==
    \/ getAllVideos_aggregate
    \/ getAllVideos_aggregatePaginate

\* -------------------------------------------------------- getUserChannelProfile
\*
\* The Subscription documents [subscriber, channel] are in the collection
\* "subscriptions"; the request carries the collection as it is at the read (store).

\* $lookup: {from: name, ...}: the documents of the collection of that name; a
\* collection there is not has none.
From(name, store) == IF name = "subscriptions" THEN store ELSE {}

\* $project: the fields named, of those the document has.
Project(doc, fields) == [f \in fields \cap DOMAIN doc |-> doc[f]]

ProfileFields ==
    {"fullName", "username", "subscribersCount", "channelsSubscribedToCount", "avtar",
     "coverImage", "email"}

\* The pipeline on the user id with document doc, for the requester viewer:
\* $lookup twice from "subscription", $addFields and $project.
ChannelProfile(id, doc, viewer, store) ==
    LET subscribers == {sub \in From("subscription", store) : sub.channel = id}
        subscribedTo == {sub \in From("subscription", store) : sub.subscriber = id}
        added == [username |-> doc.username, email |-> doc.email,
                  fullName |-> doc.fullName,
                  subscribersCount |-> Cardinality(subscribers),
                  channelsSubscribedToCount |-> Cardinality(subscribedTo),
                  isSubscribed |-> viewer \in {sub.subscriber : sub \in subscribers}]
    IN Project(added, ProfileFields)

\* User.aggregate([...]) resolves: 400 when no user has the username in lower
\* case, else the first profile is answered.
getUserChannelProfile_aggregate ==
    /\ vreq.view = "getUserChannelProfile" /\ vreq.pc = "aggregate"
    /\ LET channel == {u \in DOMAIN users : users[u].username = ToLowerCase(vreq.username)}
       IN IF channel = {}
          THEN VAnswer(vreq, 400, NoPage)
          ELSE \E u \in channel :
                VAnswer(vreq, 201,
                        Listed(<<ChannelProfile(u, users[u], vreq.viewer, vreq.store)>>))
    /\ ViewOnly

\* The Subscription documents there may be.
SubscriptionPool == {[channel |-> b, subscriber |-> a] : a \in UserIds, b \in UserIds}

\* A profile is asked for by a user, by the handle of a user (in any letter case)
\* or of none, on every collection of subscriptions.
ProfileRequests ==
    {[IdleV EXCEPT !.view = "getUserChannelProfile", !.pc = "aggregate",
                   !.store = store, !.username = username, !.viewer = viewer] :
        store \in SUBSET SubscriptionPool, username \in {"n1", "N1", "n2", "nX"},
        viewer \in UserIds}

NextProfile == getUserChannelProfile_aggregate

\* --------------------------------------------------------------- getLikedVideos

\* The Video documents a like may be of: the ids of VideoIds, owned by a user.
LikedVideoPool == {[id |-> v, owner |-> "u1"] : v \in VideoIds}

\* The request is taken (store is the Video collection the pipeline will join
\* with); Like.aggregate is awaited.
getLikedVideos_start(videoId, store) ==
    /\ VFree
    /\ LET r == [IdleV EXCEPT !.view = "getLikedVideos", !.videoId = videoId,
                              !.store = store]
       IN IF InvalidId(videoId)
          THEN VAnswer(r, 400, NoPage)
          ELSE vreq' = [r EXCEPT !.pc = "aggregate"]
    /\ ViewOnly

\* Fault variant: a $match on a field no Like document has.
LikedVideosMatchNothing(ls, videoId) == {}

\* $match: {video: videoId}
LikedVideosMatch(ls, videoId) == {l \in ls : l.kind = "video" /\ l.target = videoId}

\* $lookup of the video (with its owner, unwound) and $unwind: "$likedVideos": one
\* record per Like and video joined; a Like whose video, or whose video's owner,
\* is not there drops out.
LikedVideosJoin(matched, store, us) ==
    {x \in [like : matched, likedVideos : store] :
        x.likedVideos.id = x.like.target /\ x.likedVideos.owner \in DOMAIN us}

\* $sort: {createdAt: -1}: the records in the order of their Likes, newest first
\* (ids are handed out in the order of creation).
NewestFirst(records) ==
    [i \in 1..Cardinality(records) |->
        CHOOSE x \in records :
            Cardinality({y \in records : y.like.id > x.like.id}) = i - 1]

\* $project: {_id: 0, likedVideos: {...}}
LikedVideosProject(seq) == [i \in DOMAIN seq |-> [likedVideos |-> seq[i].likedVideos]]

\* Like.aggregate([...]) resolves and the list is answered.
getLikedVideos_aggregate ==
    /\ vreq.view = "getLikedVideos" /\ vreq.pc = "aggregate"
    /\ LET seq == NewestFirst(LikedVideosJoin(LikedVideosMatch(likes, vreq.videoId),
                                              vreq.store, users))
       IN vreq' = [vreq EXCEPT !.pc = "done", !.status = 201, !.result = seq,
                               !.data = Listed(LikedVideosProject(seq))]
    /\ ViewOnly

\* Likes of videos are toggled and the liked-videos view is read.
NextLikedVideos ==
    \/ \E p \in Procs, u \in UserIds, id \in VideoIds \cup {BadId} :
            toggleVideoLike_start(p, u, id)
    \/ \E p \in Procs : toggleVideoLike_findOne(p)
    \/ \E p \in Procs : toggleVideoLike_delete(p)
    \/ \E p \in Procs : toggleVideoLike_create(p)
    \/ \E id \in VideoIds \cup {BadId}, store \in SUBSET LikedVideoPool :
            getLikedVideos_start(id, store)
    \/ getLikedVideos_aggregate

\* The list handlers that do not paginate.

\* getUserChannelSubscribers as part_000 has it: if (!subscribersList?.length) throw
\* new ApiError(500, ...); the answer is subscribersList[0].
getUserChannelSubscribers_respond ==
    /\ vreq.view = "getUserChannelSubscribers" /\ vreq.pc = "respond"
    /\ IF Len(vreq.result) = 0
       THEN VAnswer(vreq, 500, NoPage)
       ELSE VAnswer(vreq, 201, Listed(<<vreq.result[1]>>))
    /\ ViewOnly

\* The handlers whose only check is if (!list), which no array fails:
\* getUserChannelSubscribers as part_001 has it, getSubscribedChannels,
\* getUserPlaylists, getUserTweets (of a user there is) and getLikedVideos.
ArrayViews ==
    {"getUserChannelSubscribers.part_001", "getSubscribedChannels", "getUserPlaylists",
     "getUserTweets", "getLikedVideos"}

ListRespond(view) ==
    /\ vreq.view = view /\ vreq.pc = "respond"
    /\ VAnswer(vreq, 201, Listed(vreq.result))
    /\ ViewOnly

getUserChannelSubscribers_part_001_respond == ListRespond("getUserChannelSubscribers.part_001")
getSubscribedChannels_respond == ListRespond("getSubscribedChannels")
getUserPlaylists_respond == ListRespond("getUserPlaylists")
getUserTweets_respond == ListRespond("getUserTweets")
getLikedVideos_respond == ListRespond("getLikedVideos")

ListViews == PaginatedViews \cup ArrayViews \cup {"getUserChannelSubscribers"}

\* Every list handler with its pipeline resolved to a result set of up to
\* MaxRecords records.
ListRequests ==
    PageRequests \cup
    {[IdleV EXCEPT !.view = view, !.pc = "respond", !.result = [i \in 1..n |-> i]] :
        view \in ListViews \ PaginatedViews, n \in 0..MaxRecords}

NextList ==
    \/ getVideoComments_aggregatePaginate
    \/ getAllVideos_aggregatePaginate
    \/ getUserChannelSubscribers_respond
    \/ getUserChannelSubscribers_part_001_respond
    \/ getSubscribedChannels_respond
    \/ getUserPlaylists_respond
    \/ getUserTweets_respond
    \/ getLikedVideos_respond

\* ------------------------------------------------------- views: the claims

\* C15: the answer of getVideoComments and of getAllVideos to a result set of N
\* records, a page and a limit is a success whose page number is page, whose
\* total is N and whose records are the min(limit, max(0, N - (page-1)*limit))
\* records at positions (page-1)*limit+1 .. page*limit of the result set; a page
\* past the end is an empty page.
C15_PageOfResult ==
    (vreq.view \in PaginatedViews /\ vreq.pc = "done") =>
        LET n == Len(vreq.result)
            skip == (vreq.page - 1) * vreq.limit
        IN /\ vreq.status = 201
           /\ vreq.data.page = vreq.page
           /\ vreq.data.totalDocs = n
           /\ Len(vreq.data.docs) = Min(vreq.limit, Max(0, n - skip))
           /\ \A i \in 1..Len(vreq.data.docs) : vreq.data.docs[i] = vreq.result[skip + i]

\* C17: the records the pipeline of getAllVideos gives are the videos whose title
\* has the query as a substring together with the videos of the scoping user,
\* each once, in the order of the sort field (creation time by default),
\* ascending when sortType is "asc" and descending otherwise.
C17_FeedMatchAndOrder ==
    (vreq.view = "getAllVideos" /\ vreq.pc = "paginate") =>
        LET seq == vreq.result
            key(i) == SortKey(seq[i], SortField(vreq.sortBy))
            Contains(part, text) ==
                \E pos \in 1..(Len(text) + 1) :
                    /\ pos + Len(part) - 1 <= Len(text)
                    /\ \A i \in 1..Len(part) : part[i] = text[pos + i - 1]
        IN /\ {seq[i] : i \in DOMAIN seq} =
                {v \in vreq.store : Contains(vreq.query, v.title) \/ v.owner = vreq.userId}
           /\ \A i, j \in DOMAIN seq : i # j => seq[i] # seq[j]
           /\ \A i, j \in DOMAIN seq :
                i < j => IF vreq.sortType = "asc" THEN key(i) <= key(j) ELSE key(i) >= key(j)

\* C18: the profile getUserChannelProfile answers with carries isSubscribed, true
\* exactly when there is a Subscription of the viewer to the channel at the read,
\* and its subscribersCount is the number of Subscriptions to the channel.
C18_ProfileSubscription ==
    (vreq.view = "getUserChannelProfile" /\ vreq.pc = "done" /\ vreq.status = 201) =>
        LET profile == vreq.data.docs[1]
            channel == CHOOSE u \in DOMAIN users : users[u].username = profile.username
        IN /\ "isSubscribed" \in DOMAIN profile
           /\ profile.isSubscribed
                <=> [channel |-> channel, subscriber |-> vreq.viewer] \in vreq.store
           /\ profile.subscribersCount
                = Cardinality({sub \in vreq.store : sub.channel = channel})

\* C19: the view getLikedVideos answers with for a video has one entry per Like
\* document of the video at the read; so when a user toggled a like on the video
\* that was not there, the view read then has one entry for that user's like, and
\* when the user has toggled again it has none.
C19_LikedVideosFollowToggles ==
    [][(/\ vreq.view = "getLikedVideos" /\ vreq.pc = "aggregate" /\ vreq'.pc = "done"
        /\ vreq.videoId \in {v.id : v \in vreq.store}) =>
        LET mine(u) == {i \in DOMAIN vreq'.result : vreq'.result[i].like.likedBy = u}
            toggled(stage) ==
                /\ pairRun.stage = stage /\ ~pairRun.before
                /\ pairRun.kind = "video" /\ pairRun.target = vreq.videoId
        IN /\ Len(vreq'.data.docs)
                = Cardinality({l \in likes : l.kind = "video" /\ l.target = vreq.videoId})
           /\ \A i \in DOMAIN vreq'.data.docs :
                vreq'.data.docs[i].likedVideos.id = vreq.videoId
           /\ \A u \in UserIds :
                Cardinality(mine(u)) = Cardinality(LikesOf(likes, "video", vreq.videoId, u))
           /\ toggled(2) => Cardinality(mine(pairRun.user)) = 1
           /\ toggled(4) => Cardinality(mine(pairRun.user)) = 0]_vars

\* A user has toggled a like on a video from the absent state, and the view read
\* after that has the one entry.
C19_Witness ==
    /\ pairRun.stage = 2 /\ ~pairRun.before /\ pairRun.kind = "video"
    /\ vreq.view = "getLikedVideos" /\ vreq.pc = "done" /\ vreq.status = 201
    /\ vreq.videoId = pairRun.target
    /\ Len(vreq.data.docs) = 1
    /\ vreq.result[1].like.likedBy = pairRun.user

\* C16: a list handler whose pipeline matched no record answers with a success
\* that carries an empty collection.
C16_EmptyListIsSuccess ==
    (vreq.view \in ListViews /\ vreq.pc = "done" /\ vreq.result = <<>>) =>
        (vreq.status = 201 /\ vreq.data.docs = <<>>)

InitView == vreq = IdleV

\* The shapes of a response body that are the envelope: new ApiResponse(...) of a
\* success, and what the error handler makes of an ApiError.
Envelopes == {"ApiResponse", "ApiError"}

\* C20: the body of every response of a user handler and of a like handler is the
\* envelope, with success false exactly for a failure.
C20_EveryBodyIsEnvelope ==
    \A p \in Procs :
        /\ ureq[p].pc = "done" =>
                /\ ureq[p].body \in Envelopes
                /\ ureq[p].status >= 400 <=> ureq[p].body = "ApiError"
        /\ lreq[p].pc = "done" =>
                /\ lreq[p].body \in Envelopes
                /\ lreq[p].status >= 400 <=> lreq[p].body = "ApiError"

\* C22: when updateVideo comes to delete the old thumbnail, the new thumbnail has
\* been uploaded, the record of the video has been updated to the new url by this
\* request, and the old thumbnail is still on the media host (nothing has deleted
\* it before); an updateVideo whose upload or whose update of the record failed
\* does not come to delete it.
C22_OldThumbnailDeletedAfterUpdate ==
    \A p \in Procs :
        (creq[p].op = "updateVideo" /\ creq[p].pc = "purge") =>
            /\ creq[p].up # NoAsset
            /\ creq[p].updated
            /\ creq[p].doc.thumbnail \in host

\* C28: after n toggle requests on the video have completed, isPublished is what it
\* was at first (true) when n is even and its negation when n is odd, however the
\* steps of the requests interleave.
C28_ToggleFlipsOncePerRequest ==
    LET completed == {p \in Procs : /\ creq[p].op = "togglePublishStatus"
                                    /\ creq[p].pc = "done"
                                    /\ creq[p].status = 201
                                    /\ creq[p].id = 1}
    IN videos[1].isPublished = (Cardinality(completed) % 2 = 0)

\* ------------------------------------------------------ references to videos
\*
\* Videos are published, commented, put into playlists and deleted.
NextIntegrity ==
    \/ \E u \in UserIds, t \in CreateTexts, d \in CreateTexts :
            publishAVideo_start("p1", u, t, d, TRUE)
    \/ publishAVideo_uploadVideoFile("p1")
    \/ publishAVideo_uploadThumbnail("p1")
    \/ publishAVideo_create("p1")
    \/ \E u \in UserIds, id \in KnownIds("video"), c \in CreateTexts :
            addComment("p1", u, id, c)
    \/ \E u \in UserIds, id \in KnownIds("comment") : deleteComment_start("p1", u, id)
    \/ deleteComment_findById("p1")
    \/ deleteComment_delete("p1")
    \/ \E u \in UserIds, n \in CreateTexts, d \in CreateTexts : createPlaylist("p1", u, n, d)
    \/ \E u \in UserIds, pl \in KnownIds("playlist") \ {NoSuchDocId},
          v \in KnownIds("video") \ {BadDocId} :
            addVideoToPlaylist_start("p1", u, pl, v)
    \/ addVideoToPlaylist_findVideo("p1")
    \/ addVideoToPlaylist_findPlaylist("p1")
    \/ addVideoToPlaylist_update("p1")
    \/ \E u \in UserIds, id \in KnownIds("video") : deleteVideo_start("p1", u, id)
    \/ deleteVideo_findById("p1")
    \/ deleteVideo_delete("p1")
    \/ deleteVideo_purgeVideoFile("p1")
    \/ deleteVideo_purgeThumbnail("p1")

\* C30: in every reachable state the video of every Comment and every video of
\* every playlist is a Video document that exists.
C30_ReferencesPointToRecords ==
    /\ \A c \in DOMAIN comments : comments[c].video \in DOMAIN videos
    /\ \A pl \in DOMAIN playlists : playlists[pl].videos \subseteq DOMAIN videos

\* --------------------------------------------------------------- getPlaylistById
\*
\* The detail view of a playlist. The request carries the collections it reads
\* (store): the Playlist documents [id, name, videos] and the Video documents
\* [id, isPublished, views].

PlaylistIds == {"pl1"}

\* The sum of the views of a set of videos.
RECURSIVE SumViews(_)
SumViews(vs) ==
    IF vs = {} THEN 0
    ELSE LET v == CHOOSE x \in vs : TRUE IN v.views + SumViews(vs \ {v})

\* if (!playlistId) throw new ApiError(400, ...): the only test of the id; a string
\* that is no ObjectId passes it.
getPlaylistById_start(playlistId, store) ==
    /\ VFree
    /\ LET r == [IdleV EXCEPT !.view = "getPlaylistById", !.playlistId = playlistId,
                              !.store = store]
       IN IF playlistId = Absent
          THEN VAnswer(r, 400, NoPage)
          ELSE vreq' = [r EXCEPT !.pc = "findById"]
    /\ ViewOnly

\* await Playlist.findById(playlistId): a string that is no ObjectId is a CastError
\* of the query (no ApiError, answered 500); no playlist of that id is a 400.
getPlaylistById_findById ==
    /\ vreq.view = "getPlaylistById" /\ vreq.pc = "findById"
    /\ IF vreq.playlistId = BadId
       THEN VAnswer(vreq, 500, NoPage)
       ELSE IF \A pl \in vreq.store.playlists : pl.id # vreq.playlistId
       THEN VAnswer(vreq, 400, NoPage)
       ELSE vreq' = [vreq EXCEPT !.pc = "aggregate"]
    /\ ViewOnly

\* $lookup: {from: "videos", localField: "videos", foreignField: "_id", as: "videos"}
PlaylistLookup(pl, videoDocs) ==
    [pl EXCEPT !.videos = {v \in videoDocs : v.id \in pl.videos}]

\* $match: {"videos.isPublished": true}: of an array field, the playlist matches
\* when some element of videos has isPublished true; the array is left as it is.
PlaylistMatchPublished(pls) == {pl \in pls : \E v \in pl.videos : v.isPublished}

\* $addFields totalVideos, totalViews and $project, which names of a video its _id
\* and views (with title, urls and duration, not modelled) but not isPublished.
PlaylistProject(pl) ==
    [videos |-> {[id |-> v.id, views |-> v.views] : v \in pl.videos},
     name |-> pl.name, id |-> pl.id,
     totalVideos |-> Cardinality(pl.videos), totalViews |-> SumViews(pl.videos)]

\* Playlist.aggregate([...]) resolves; the array is answered (no array is falsy).
getPlaylistById_aggregate ==
    /\ vreq.view = "getPlaylistById" /\ vreq.pc = "aggregate"
    /\ LET matched == {pl \in vreq.store.playlists : pl.id = vreq.playlistId}
           joined == {PlaylistLookup(pl, vreq.store.videos) : pl \in matched}
           kept == PlaylistMatchPublished(joined)
           seq == IF kept = {} THEN <<>> ELSE <<PlaylistProject(CHOOSE pl \in kept : TRUE)>>
       IN vreq' = [vreq EXCEPT !.pc = "done", !.status = 201, !.result = seq,
                               !.data = Listed(seq)]
    /\ ViewOnly

\* ------------------------------------------------- getVideoComments: the pipeline
\*
\* The request carries the collections it reads (store): the Comment documents
\* [id, video, owner] and the Like documents [comment, likedBy].

\* The comments in the order of the collection (ids are handed out in the order of
\* creation).
OldestFirst(records) ==
    [i \in 1..Cardinality(records) |->
        CHOOSE x \in records : Cardinality({y \in records : y.id < x.id}) = i - 1]

getVideoComments_start(videoId, viewer, page, limit, store) ==
    /\ VFree
    /\ LET r == [IdleV EXCEPT !.view = "getVideoComments", !.videoId = videoId,
                              !.viewer = viewer, !.page = page, !.limit = limit,
                              !.store = store]
       IN IF InvalidId(videoId)
          THEN VAnswer(r, 400, NoPage)
          ELSE vreq' = [r EXCEPT !.pc = "aggregate"]
    /\ ViewOnly

\* Fault variant: the $match stage left out.
CommentsMatchAll(cs, videoId) == cs

\* $match: {video: videoId}
CommentsMatch(cs, videoId) == {c \in cs : c.video = videoId}

\* $lookup: {from: "likes", localField: "_id", foreignField: "comment", as: "likes"}
\* and $addFields: likesCount is $size of likes, isLiked is $in: [req.user?._id,
\* "$likes.likedBy"].
CommentWithLikes(c, ls, viewer) ==
    LET joined == {l \in ls : l.comment = c.id}
    IN [id |-> c.id, isLiked |-> viewer \in {l.likedBy : l \in joined},
        video |-> c.video, likesCount |-> Cardinality(joined)]

\* Comment.aggregate([...]) resolves (if (!getComments) is never taken: an array).
getVideoComments_aggregate ==
    /\ vreq.view = "getVideoComments" /\ vreq.pc = "aggregate"
    /\ LET matched == OldestFirst(CommentsMatch(vreq.store.comments, vreq.videoId))
       IN vreq' = [vreq EXCEPT !.pc = "paginate",
                               !.result = [i \in DOMAIN matched |->
                                   CommentWithLikes(matched[i], vreq.store.likes,
                                                    vreq.viewer)]]
    /\ ViewOnly

\* The Comment and the Like documents a comment list may be read from.
CommentPool ==
    {[id |-> 1, video |-> "v1", owner |-> "u1"], [id |-> 2, video |-> "v1", owner |-> "u2"],
     [id |-> 3, video |-> "v2", owner |-> "u1"]}

CommentLikePool ==
    {[likedBy |-> "u1", comment |-> 1], [likedBy |-> "u2", comment |-> 1],
     [likedBy |-> "u1", comment |-> 3]}

\* The comments of a video are listed, from some collection of comments and likes.
NextComments ==
    \/ \E id \in VideoIds \cup {"v2", BadId}, viewer \in UserIds, page \in 1..2,
          limit \in 1..2, cs \in SUBSET CommentPool, ls \in SUBSET CommentLikePool :
            getVideoComments_start(id, viewer, page, limit, [likes |-> ls, comments |-> cs])
    \/ getVideoComments_aggregate
    \/ getVideoComments_aggregatePaginate

FieldValues(docs, field) == {d[field] : d \in {x \in docs : field \in DOMAIN x}}

getUserTweets_start(userId, viewer, store) ==
    /\ VFree
    /\ LET r == [IdleV EXCEPT !.view = "getUserTweets", !.userId = userId,
                              !.viewer = viewer, !.store = store]
       IN IF InvalidId(userId)
          THEN VAnswer(r, 400, NoPage)
          ELSE vreq' = [r EXCEPT !.pc = "findById"]
    /\ ViewOnly

\* user = await User.findById(userId); if (!user) throw new ApiError(400, ...)
getUserTweets_findById ==
    /\ vreq.view = "getUserTweets" /\ vreq.pc = "findById"
    /\ IF vreq.userId \notin DOMAIN users
       THEN VAnswer(vreq, 400, NoPage)
       ELSE vreq' = [vreq EXCEPT !.pc = "aggregate"]
    /\ ViewOnly

\* $lookup from users as ownerDetails (of a user its username is projected), $lookup
\* from likes as likeDetails (likedBy is projected) and $addFields: likesCount is
\* $size of likeDetails, isLiked is $in: [userId, "$ownerDetails.likedBy"]; $project
\* keeps both (with the content and the owner's details).
TweetWithLikes(t, ls, us, userId) ==
    LET ownerDetails == {[username |-> us[u].username, id |-> u] :
                            u \in {x \in DOMAIN us : x = t.owner}}
        likeDetails == {[likedBy |-> l.likedBy] : l \in {x \in ls : x.tweet = t.id}}
    IN [id |-> t.id, isLiked |-> userId \in FieldValues(ownerDetails, "likedBy"),
        likesCount |-> Cardinality(likeDetails)]

\* Tweet.aggregate([...]) resolves: the tweets of userId, newest first.
getUserTweets_aggregate ==
    /\ vreq.view = "getUserTweets" /\ vreq.pc = "aggregate"
    /\ LET matched == {t \in vreq.store.tweets : t.owner = vreq.userId}
           oldest == OldestFirst(matched)
           n == Len(oldest)
       IN vreq' = [vreq EXCEPT !.pc = "respond",
                               !.result = [i \in 1..n |->
                                   TweetWithLikes(oldest[n + 1 - i], vreq.store.likes,
                                                  users, vreq.userId)]]
    /\ ViewOnly

\* The Tweet and the Like documents a tweet list may be read from.
TweetPool == {[id |-> 1, owner |-> "u1"], [id |-> 2, owner |-> "u1"], [id |-> 3, owner |-> "u2"]}

TweetLikePool ==
    {[likedBy |-> "u1", tweet |-> 1], [likedBy |-> "u2", tweet |-> 1],
     [likedBy |-> "u1", tweet |-> 3]}

\* The tweets of a user are listed, from some collection of tweets and likes.
NextTweets ==
    \/ \E id \in UserIds \cup {"uX", BadId}, viewer \in UserIds,
          ts \in SUBSET TweetPool, ls \in SUBSET TweetLikePool :
            getUserTweets_start(id, viewer, [likes |-> ls, tweets |-> ts])
    \/ getUserTweets_findById
    \/ getUserTweets_aggregate
    \/ getUserTweets_respond

\* C24: of every tweet getUserTweets lists to viewer U, isLiked tells whether a Like
\* document of that tweet by U exists, and likesCount is the number of Like
\* documents of that tweet.
C24_TweetLikesOfViewer ==
    (vreq.view = "getUserTweets" /\ vreq.pc = "done" /\ vreq.status = 201) =>
        \A i \in DOMAIN vreq.data.docs :
            LET t == vreq.data.docs[i]
            IN /\ t.likesCount = Cardinality({l \in vreq.store.likes : l.tweet = t.id})
               /\ t.isLiked <=>
                    \E l \in vreq.store.likes : l.tweet = t.id /\ l.likedBy = vreq.viewer

\* The collections a playlist may be read from: no playlist or the playlist pl1 of
\* some of two videos, each video published or not.
PlaylistStores ==
    {[playlists |-> pls, videos |-> {[id |-> "v1", isPublished |-> p1, views |-> w],
                                     [id |-> "v2", isPublished |-> p2, views |-> 3]}] :
        pls \in {{}} \cup {{[videos |-> vs, name |-> "n", id |-> "pl1"]} :
                                vs \in SUBSET {"v1", "v2"}},
        p1 \in BOOLEAN, p2 \in BOOLEAN, w \in 1..2}

\* The detail of a playlist is read, from some collection of playlists and videos.
NextPlaylistDetail ==
    \/ \E id \in PlaylistIds \cup {Absent, BadId, "plX"}, store \in PlaylistStores :
            getPlaylistById_start(id, store)
    \/ getPlaylistById_findById
    \/ getPlaylistById_aggregate

\* C25: the detail view of an existing playlist P is one record, which lists the
\* videos of P that are published and no other, with totalVideos their number and
\* totalViews the sum of their views (none listed when P has no published video).
C25_PlaylistDetailPublishedOnly ==
    (vreq.view = "getPlaylistById" /\ vreq.pc = "done" /\ vreq.status = 201) =>
        LET P == CHOOSE pl \in vreq.store.playlists : pl.id = vreq.playlistId
            published == {v \in vreq.store.videos : v.id \in P.videos /\ v.isPublished}
            docs == vreq.data.docs
        IN /\ Len(docs) = 1
           /\ {v.id : v \in docs[1].videos} = {v.id : v \in published}
           /\ docs[1].totalVideos = Cardinality(published)
           /\ docs[1].totalViews = SumViews(published)

\* ------------------------------------------------------- validation of the ids
\*
\* The handlers that take an id, each asked with a missing, a malformed, an unknown
\* and a known id.

ValidatedOps == {"addComment", "updateComment", "updateTweet"}

NextValidate ==
    \/ \E id \in PlaylistIds \cup {Absent, BadId, "plX"},
          pls \in SUBSET {[videos |-> {}, name |-> "n", id |-> "pl1"]} :
            getPlaylistById_start(id, [playlists |-> pls, videos |-> {}])
    \/ getPlaylistById_findById
    \/ getPlaylistById_aggregate
    \/ \E id \in VideoIds \cup {Absent, BadId},
          cs \in SUBSET {[id |-> 1, video |-> "v1", owner |-> "u1"]} :
            getVideoComments_start(id, "u1", 1, 1, [likes |-> {}, comments |-> cs])
    \/ getVideoComments_aggregate
    \/ getVideoComments_aggregatePaginate
    \/ \E u \in UserIds, id \in {BadDocId, NoSuchDocId}, c \in CreateTexts \cup {Absent} :
            addComment("p1", u, id, c)
    \/ \E u \in UserIds, id \in KnownIds("comment"), c \in UpdateTexts \cup {Absent} :
            updateComment_start("p1", u, id, c)
    \/ updateComment_findById("p1")
    \/ updateComment_update("p1")
    \/ \E u \in UserIds, c \in CreateTexts : createTweet("p1", u, c)
    \/ \E u \in UserIds, id \in KnownIds("tweet"), c \in UpdateTexts \cup {Absent} :
            updateTweet_start("p1", u, id, c)
    \/ updateTweet_findById("p1")
    \/ updateTweet_update("p1")

\* C21: a request of a handler that takes an id, asked with a missing or malformed
\* id, is never past its first step (where the store is read or written): it is
\* answered at once, with 400.
C21_BadIdFailsBeforeStore ==
    /\ \A p \in Procs :
        (creq[p].op \in ValidatedOps /\
         ~IsValidObjectId(IF creq[p].op = "addComment" THEN creq[p].vid ELSE creq[p].id)) =>
            (creq[p].pc = "done" /\ creq[p].status = 400)
    /\ (vreq.view = "getVideoComments" /\ InvalidId(vreq.videoId)) =>
            (vreq.pc = "done" /\ vreq.status = 400)
    /\ (vreq.view = "getPlaylistById" /\ InvalidId(vreq.playlistId)) =>
            (vreq.pc = "done" /\ vreq.status = 400)

InitAccount == ureq = [p \in Procs |-> IdleU]

Init == InitAuth /\ InitLike /\ InitContent /\ InitAccount /\ InitView

\* A list request whose pipeline has resolved, in a system otherwise at rest.
InitList == InitAuth /\ InitLike /\ InitContent /\ InitAccount /\ vreq \in ListRequests

\* getAllVideos asked for, on some collection of videos.
InitFeed == InitAuth /\ InitLike /\ InitContent /\ InitAccount /\ vreq \in FeedRequests

\* A channel profile asked for, on some collection of subscriptions.
InitProfile == InitAuth /\ InitLike /\ InitContent /\ InitAccount /\ vreq \in ProfileRequests

\* The same, of the handlers that paginate.
InitPage == InitAuth /\ InitLike /\ InitContent /\ InitAccount /\ vreq \in PageRequests

\* A video published by u1 (two uploads, then Video.create), its flag set, and no
\* request in flight.
InitToggle ==
    /\ InitAuth /\ InitLike /\ InitAccount /\ InitView
    /\ tweets = <<>> /\ comments = <<>> /\ playlists = <<>>
    /\ videos = <<[owner |-> "u1", title |-> "a", description |-> "a", videoFile |-> 1,
                   thumbnail |-> 2, isPublished |-> TRUE]>>
    /\ host = {1, 2}
    /\ uploads = 2
    /\ creq = [p \in Procs |-> IdleC]
    /\ made = {<<"video", 1, "u1">>}
    /\ purges = EmptyBag

Next ==
    \/ NextAuth \/ NextLogin \/ NextLike \/ NextOwner \/ NextVideo \/ NextPlaylist
    \/ NextRegister \/ NextAccount \/ NextPassword \/ NextEnvelope \/ NextDelete
    \/ NextPage \/ NextList \/ NextFeed \/ NextProfile
    \/ NextLikedVideos \/ NextValidate \/ NextThumbnail \/ NextComments
    \/ NextTweets \/ NextPlaylistDetail \/ NextToggle \/ NextSession
    \/ NextIntegrity

SpecAuth == Init /\ [][NextAuth]_vars

SpecLogin == Init /\ [][NextLogin]_vars

SpecLike == Init /\ [][NextLike]_vars

SpecOwner == Init /\ [][NextOwner]_vars

SpecVideo == Init /\ [][NextVideo]_vars

SpecPlaylist == Init /\ [][NextPlaylist]_vars

SpecDelete == Init /\ [][NextDelete]_vars

SpecRegister == Init /\ [][NextRegister]_vars

SpecAccount == Init /\ [][NextAccount]_vars

SpecPassword == Init /\ [][NextPassword]_vars

SpecEnvelope == Init /\ [][NextEnvelope]_vars

SpecPage == InitPage /\ [][NextPage]_vars

SpecList == InitList /\ [][NextList]_vars

SpecFeed == InitFeed /\ [][NextFeed]_vars

SpecProfile == InitProfile /\ [][NextProfile]_vars

SpecLikedVideos == Init /\ [][NextLikedVideos]_vars

SpecThumbnail == Init /\ [][NextThumbnail]_vars

SpecComments == Init /\ [][NextComments]_vars

SpecTweets == Init /\ [][NextTweets]_vars

SpecPlaylistDetail == Init /\ [][NextPlaylistDetail]_vars

SpecToggle == InitToggle /\ [][NextToggle]_vars

SpecSession == Init /\ [][NextSession]_vars

SpecIntegrity == Init /\ [][NextIntegrity]_vars

SpecValidate == Init /\ [][NextValidate]_vars

Spec == Init /\ [][Next]_vars

====
